---- MODULE Spec2Model ----
(***************************************************************************)
(* A state-machine model of the hierarchical tiling layout engine          *)
(* (TraditionalLayoutSystem): the node forest, the Selection, Layout and   *)
(* Window components kept coherent by the observer protocol, and the       *)
(* public LayoutSystem operations.                                         *)
(*                                                                         *)
(* Sizes (f32 in the source) are integers in units of 1/SizeScale, frames  *)
(* are integer rectangles.  A Rust panic (a failed assert!, an unwrap of   *)
(* None, the use of a removed node's handle) ends the run: the variable    *)
(* trap records its message and no operation is enabled afterwards.        *)
(***************************************************************************)
EXTENDS Integers, Sequences, FiniteSets, TLC

\* ---------------------------------------------------------------- bounds
MaxNodes == 10
MaxLayouts == 2
SizeScale == 2
MaxSteps == 3

Nodes == 1..MaxNodes
Layouts == 1..MaxLayouts
NoNode == 0
One == SizeScale

\* WindowId is (pid, idx); two windows of pid 1 and one of pid 2.
Windows == {<<1, 1>>, <<1, 2>>, <<2, 1>>}
NoWin == <<0, 0>>
Pids == {w[1] : w \in Windows}

Kinds == {"Horizontal", "Vertical", "HorizontalStack", "VerticalStack"}
Directions == {"Left", "Right", "Up", "Down"}
StackOrients == {"Perpendicular", "Same", "Horizontal", "Vertical"}

VARIABLES alive, par, kids, sel, info, win, wn, roots, trap, steps

vars == <<alive, par, kids, sel, info, win, wn, roots, trap, steps>>

\* ------------------------------------------------- LayoutKind / Direction
IsGroup(k) == k \in {"HorizontalStack", "VerticalStack"}

IsStacked(k) == k \in {"HorizontalStack", "VerticalStack"}

KindOrientation(k) == IF k \in {"Horizontal", "HorizontalStack"} THEN "Horizontal" ELSE "Vertical"

DirOrientation(d) == IF d \in {"Left", "Right"} THEN "Horizontal" ELSE "Vertical"

Opposite(d) ==
  CASE d = "Left" -> "Right" [] d = "Right" -> "Left" [] d = "Up" -> "Down" [] OTHER -> "Up"

KindFromOrientation(o) == IF o = "Horizontal" THEN "Horizontal" ELSE "Vertical"

Forward(d) == d \in {"Right", "Down"}

\* ------------------------------------------------------- component records
DefaultInfo ==
  [size |-> 0, total |-> 0, kind |-> "Horizontal", lug |-> "Horizontal",
   fs |-> FALSE, fsg |-> FALSE]

NoSel == [has |-> FALSE, child |-> NoNode, stop |-> FALSE, rs |-> NoNode, re |-> NoNode]

SelInfo(c, stop) == [has |-> TRUE, child |-> c, stop |-> stop, rs |-> NoNode, re |-> NoNode]

\* The whole system as one value; operations are functions on it.
St ==
  [alive |-> alive, par |-> par, kids |-> kids, sel |-> sel, info |-> info,
   win |-> win, wn |-> wn, roots |-> roots, trap |-> trap]

Trap(s, msg) == IF s.trap = "" THEN [s EXCEPT !.trap = msg] ELSE s

Ok(s) == s.trap = ""

\* ------------------------------------------------------------- sequences
IndexOf(seq, x) == IF \E i \in 1..Len(seq) : seq[i] = x
                   THEN CHOOSE i \in 1..Len(seq) : seq[i] = x /\ \A j \in 1..(i-1) : seq[j] # x
                   ELSE 0

SeqRemove(seq, x) == SelectSeq(seq, LAMBDA y : y # x)

SeqInsertAt(seq, i, x) == SubSeq(seq, 1, i - 1) \o <<x>> \o SubSeq(seq, i, Len(seq))

SeqSet(seq) == {seq[i] : i \in 1..Len(seq)}

Reverse(seq) == [i \in 1..Len(seq) |-> seq[Len(seq) + 1 - i]]

MinOf(S) == CHOOSE x \in S : \A y \in S : x <= y

RECURSIVE SumSeq(_)
SumSeq(seq) == IF seq = <<>> THEN 0 ELSE Head(seq) + SumSeq(Tail(seq))

\* ------------------------------------------------------- forest: queries
Parent(s, n) == s.par[n]

Children(s, n) == s.kids[n]

FirstChild(s, n) == IF s.kids[n] = <<>> THEN NoNode ELSE s.kids[n][1]

LastChild(s, n) == IF s.kids[n] = <<>> THEN NoNode ELSE s.kids[n][Len(s.kids[n])]

NextSibling(s, n) ==
  IF s.par[n] = NoNode THEN NoNode
  ELSE LET sibs == s.kids[s.par[n]]
           i == IndexOf(sibs, n)
       IN IF i < Len(sibs) THEN sibs[i + 1] ELSE NoNode

PrevSibling(s, n) ==
  IF s.par[n] = NoNode THEN NoNode
  ELSE LET sibs == s.kids[s.par[n]]
           i == IndexOf(sibs, n)
       IN IF i > 1 THEN sibs[i - 1] ELSE NoNode

\* node.ancestors(map): the node itself first, then its parent, ..., the root.
RECURSIVE Ancestors(_, _)
Ancestors(s, n) == IF n = NoNode THEN <<>> ELSE <<n>> \o Ancestors(s, s.par[n])

Subtree(s, n) == {m \in s.alive : n \in SeqSet(Ancestors(s, m))}

RECURSIVE Preorder(_, _)
RECURSIVE PreorderSeq(_, _)
Preorder(s, n) == <<n>> \o PreorderSeq(s, s.kids[n])
PreorderSeq(s, seq) == IF seq = <<>> THEN <<>> ELSE Preorder(s, Head(seq)) \o PreorderSeq(s, Tail(seq))

RECURSIVE Postorder(_, _)
RECURSIVE PostorderSeq(_, _)
Postorder(s, n) == PostorderSeq(s, s.kids[n]) \o <<n>>
PostorderSeq(s, seq) == IF seq = <<>> THEN <<>> ELSE Postorder(s, Head(seq)) \o PostorderSeq(s, Tail(seq))

\* Handles still held somewhere in the component tables.
Referenced(s) ==
  s.alive
  \cup {s.sel[n].child : n \in Nodes} \cup {s.sel[n].rs : n \in Nodes} \cup {s.sel[n].re : n \in Nodes}
  \cup UNION {{s.wn[w][i][2] : i \in 1..Len(s.wn[w])} : w \in Windows}

\* Handles of removed nodes are never reused: a new node takes a handle that
\* nothing refers to.
FreshNode(s) ==
  LET free == Nodes \ Referenced(s)
  IN IF free = {} THEN NoNode ELSE MinOf(free)

\* --------------------------------------------------- component observers
\* a Selection that does not hear of a node leaving its parent
SelRemovingFromParentUnheard(s, n) == s

\* Selection::handle_event(RemovingFromParent)
SelRemovingFromParent(s, n) ==
  LET p == s.par[n]
  IN IF s.sel[p].has /\ s.sel[p].child = n
     THEN LET nx == NextSibling(s, n)
              pv == PrevSibling(s, n)
              new == IF nx # NoNode THEN nx ELSE pv
          IN IF new # NoNode
             THEN [s EXCEPT !.sel[p].child = new]
             ELSE [s EXCEPT !.sel[p] = NoSel]
     ELSE s

\* Layout::handle_event(RemovingFromParent)
LayoutRemovingFromParent(s, n) ==
  [s EXCEPT !.info[s.par[n]].total = @ - s.info[n].size]

\* Layout::handle_event(AddedToParent)
LayoutAddedToParent(s, n) ==
  [s EXCEPT !.info[n].size = One, !.info[s.par[n]].total = @ + One]

\* Components::dispatch_event(RemovedFromForest) for every node of D.
RemovedFromForest(s, D) ==
  [s EXCEPT
     !.alive = @ \ D,
     !.par = [n \in Nodes |-> IF n \in D THEN NoNode ELSE @[n]],
     !.kids = [n \in Nodes |-> IF n \in D THEN <<>> ELSE @[n]],
     !.sel = [n \in Nodes |-> IF n \in D THEN NoSel ELSE @[n]],
     !.info = [n \in Nodes |-> IF n \in D THEN DefaultInfo ELSE @[n]],
     !.win = [n \in Nodes |-> IF n \in D THEN NoWin ELSE @[n]],
     !.wn = [w \in Windows |->
               SelectSeq(@[w], LAMBDA e : ~(e[2] \in D /\ s.win[e[2]] = w))]]

\* ------------------------------------------------------ forest: mutation
\* Tree::mk_node: a new unattached node; AddedToForest inserts LayoutInfo::default().
MkNode(s) ==
  IF ~Ok(s) THEN s
  ELSE LET n == FreshNode(s)
       IN IF n = NoNode THEN Trap(s, "oom")
          ELSE [s EXCEPT !.alive = @ \cup {n}, !.info[n] = DefaultInfo]

\* link as the last child of p, then AddedToParent
PushBack(s, n, p) ==
  IF ~Ok(s) THEN s
  ELSE IF p \notin s.alive \/ n \notin s.alive THEN Trap(s, "push_back: removed node")
  ELSE LayoutAddedToParent([s EXCEPT !.kids[p] = Append(@, n), !.par[n] = p], n)

InsertAfter(s, n, sib) ==
  IF ~Ok(s) THEN s
  ELSE IF sib \notin s.alive \/ n \notin s.alive THEN Trap(s, "insert_after: removed node")
  ELSE IF s.par[sib] = NoNode THEN Trap(s, "insert_after: sibling has no parent")
  ELSE LET p == s.par[sib]
           i == IndexOf(s.kids[p], sib)
       IN LayoutAddedToParent(
            [s EXCEPT !.kids[p] = SeqInsertAt(@, i + 1, n), !.par[n] = p], n)

InsertBefore(s, n, sib) ==
  IF ~Ok(s) THEN s
  ELSE IF sib \notin s.alive \/ n \notin s.alive THEN Trap(s, "insert_before: removed node")
  ELSE IF s.par[sib] = NoNode THEN Trap(s, "insert_before: sibling has no parent")
  ELSE LET p == s.par[sib]
           i == IndexOf(s.kids[p], sib)
       IN LayoutAddedToParent(
            [s EXCEPT !.kids[p] = SeqInsertAt(@, i, n), !.par[n] = p], n)

\* NodeId::detach: RemovingFromParent is dispatched, then the node is unlinked.
Detach(s, n) ==
  IF ~Ok(s) THEN s
  ELSE IF n \notin s.alive THEN Trap(s, "detach: removed node")
  ELSE IF s.par[n] = NoNode THEN Trap(s, "detach: node has no parent")
  ELSE LET p == s.par[n]
           s1 == LayoutRemovingFromParent(SelRemovingFromParent(s, n), n)
       IN [s1 EXCEPT !.kids[p] = SeqRemove(@, n), !.par[n] = NoNode]

\* remove of a detached node: the whole subtree leaves the forest.
DeleteRecursive(s, n) ==
  IF ~Ok(s) THEN s ELSE RemovedFromForest(s, Subtree(s, n))

\* a hoisted child that keeps the unit size it was inserted with
AssumeSizeOfKept(s, new, old) ==
  IF ~Ok(s) THEN s
  ELSE IF new \notin s.alive \/ old \notin s.alive THEN Trap(s, "assume_size_of: removed node")
  ELSE [s EXCEPT !.info[old].size = 0]

\* Layout::assume_size_of
AssumeSizeOf(s, new, old) ==
  IF ~Ok(s) THEN s
  ELSE IF new \notin s.alive \/ old \notin s.alive THEN Trap(s, "assume_size_of: removed node")
  ELSE IF s.par[new] # s.par[old] THEN Trap(s, "assume_size_of: assert_eq parents")
  ELSE IF s.par[new] = NoNode THEN Trap(s, "assume_size_of: unwrap parent")
  ELSE LET p == s.par[new]
       IN [s EXCEPT !.info[p].total = @ - s.info[new].size,
                    !.info[new].size = s.info[old].size,
                    !.info[old].size = 0]

RECURSIVE RemovedChild(_, _)
RECURSIVE DetachRemove(_, _)

\* an auto-collapse that removes an emptied parent without telling the
\* parent's own parent
RemovedChildUnchained(s, p) ==
  IF ~Ok(s) THEN s
  ELSE IF s.par[p] = NoNode THEN s
  ELSE IF s.kids[p] = <<>> THEN DeleteRecursive(Detach(s, p), p)
  ELSE IF FirstChild(s, p) = LastChild(s, p)
       THEN DeleteRecursive(
              Detach(AssumeSizeOf(InsertAfter(Detach(s, FirstChild(s, p)), FirstChild(s, p), p),
                                  FirstChild(s, p), p), p), p)
  ELSE s

\* Components::removed_child: the auto-collapse rule, run for the old parent
\* once the detached node has been re-attached or removed.
RemovedChild(s, p) ==
  IF ~Ok(s) THEN s
  ELSE IF s.par[p] = NoNode THEN s
  ELSE IF s.kids[p] = <<>> THEN DetachRemove(s, p)
  ELSE IF FirstChild(s, p) = LastChild(s, p)
       THEN LET c == FirstChild(s, p)
                s1 == Detach(s, c)
                s2 == InsertAfter(s1, c, p)
                s3 == AssumeSizeOf(s2, c, p)
            IN RemovedChild(s3, p)
  ELSE s

\* node.detach(tree).remove()
DetachRemove(s, n) ==
  LET p == s.par[n]
      s1 == Detach(s, n)
      s2 == DeleteRecursive(s1, n)
  IN RemovedChild(s2, p)

\* node.detach(tree).push_back(p)
DetachPushBack(s, n, newp) ==
  LET p == s.par[n]
  IN RemovedChild(PushBack(Detach(s, n), n, newp), p)

\* node.detach(tree).insert_after(sib)
DetachInsertAfter(s, n, sib) ==
  LET p == s.par[n]
  IN RemovedChild(InsertAfter(Detach(s, n), n, sib), p)

\* node.detach(tree).insert_before(sib)
DetachInsertBefore(s, n, sib) ==
  LET p == s.par[n]
  IN RemovedChild(InsertBefore(Detach(s, n), n, sib), p)

\* ------------------------------------------------------------- Selection
RECURSIVE CurrentSelection(_, _)
CurrentSelection(s, n) ==
  IF s.sel[n].has /\ ~s.sel[n].stop THEN CurrentSelection(s, s.sel[n].child) ELSE n

LastSelection(s, n) == IF s.sel[n].has THEN s.sel[n].child ELSE NoNode

LocalSelection(s, n) == IF s.sel[n].has /\ ~s.sel[n].stop THEN s.sel[n].child ELSE NoNode

SelectLocally(s, n) ==
  IF ~Ok(s) THEN s
  ELSE IF n \notin s.alive THEN Trap(s, "select_locally: removed node")
  ELSE IF s.par[n] # NoNode THEN [s EXCEPT !.sel[s.par[n]] = SelInfo(n, FALSE)]
  ELSE s

\* whether select_locally changed the parent's selected child
SelectLocallyChanged(s, n) ==
  /\ s.par[n] # NoNode
  /\ (s.sel[s.par[n]].has => s.sel[s.par[n]].child # n)

RECURSIVE SelectUp(_, _)
SelectUp(s, n) ==
  IF s.par[n] = NoNode THEN s
  ELSE SelectUp([s EXCEPT !.sel[s.par[n]] = SelInfo(n, FALSE)], s.par[n])

Select(s, n) ==
  IF ~Ok(s) THEN s
  ELSE IF n \notin s.alive THEN Trap(s, "select: removed node")
  ELSE SelectUp(IF s.sel[n].has THEN [s EXCEPT !.sel[n].stop = TRUE] ELSE s, n)

SetRange(s, n, start, end) ==
  IF ~Ok(s) THEN s
  ELSE IF n \notin s.alive THEN Trap(s, "set_range: removed node")
  ELSE IF s.par[n] # NoNode /\ s.sel[s.par[n]].has
       THEN [s EXCEPT !.sel[s.par[n]].rs = start, !.sel[s.par[n]].re = end]
       ELSE s

HasRange(s, n) ==
  /\ s.par[n] # NoNode
  /\ s.sel[s.par[n]].has
  /\ s.sel[s.par[n]].rs # NoNode
  /\ s.sel[s.par[n]].re # NoNode

RangeStart(s, n) == s.sel[s.par[n]].rs

RangeEnd(s, n) == s.sel[s.par[n]].re

ClearRange(s, n) ==
  IF ~Ok(s) THEN s
  ELSE IF n \notin s.alive THEN Trap(s, "clear_range: removed node")
  ELSE IF s.par[n] # NoNode /\ s.sel[s.par[n]].has
       THEN [s EXCEPT !.sel[s.par[n]].rs = NoNode, !.sel[s.par[n]].re = NoNode]
       ELSE s

\* ---------------------------------------------------------------- Window
WindowAt(s, n) == s.win[n]

NodeFor(s, l, w) ==
  LET es == SelectSeq(s.wn[w], LAMBDA e : e[1] = l)
  IN IF es = <<>> THEN NoNode ELSE es[1][2]

SetWindow(s, l, n, w) ==
  IF ~Ok(s) THEN s
  ELSE IF s.win[n] # NoWin THEN Trap(s, "set_window: node already bound")
  ELSE [s EXCEPT !.win[n] = w, !.wn[w] = Append(@, <<l, n>>)]

\* ---------------------------------------------------------------- Layout
Kind(s, n) == s.info[n].kind

SetKind(s, n, k) ==
  IF ~Ok(s) THEN s
  ELSE IF n \notin s.alive THEN Trap(s, "set_kind: removed node")
  ELSE [s EXCEPT !.info[n].kind = k,
                 !.info[n].lug = IF IsGroup(k) THEN @ ELSE k]

\* ------------------------------------------------------ layout system
Root(s, l) == s.roots[l]

Selection(s, l) == CurrentSelection(s, Root(s, l))

LayoutExists(s, l) == s.roots[l] # NoNode

\* handles of layouts are never reused while the binding table still names them
FreshLayout(s) ==
  LET used == {l \in Layouts : s.roots[l] # NoNode}
              \cup UNION {{s.wn[w][i][1] : i \in 1..Len(s.wn[w])} : w \in Windows}
      free == Layouts \ used
  IN IF free = {} THEN 0 ELSE MinOf(free)

\* layout_roots: the layout's handle now owns node n as its root
SetRoot(s, l, n) == IF Ok(s) THEN [s EXCEPT !.roots[l] = n] ELSE s

\* create_layout
CreateLayoutOp(s) ==
  IF FreshLayout(s) = 0 THEN Trap(s, "oom")
  ELSE SetRoot(MkNode(s), FreshLayout(s), FreshNode(s))

\* add_window_under
AddWindowUnder(s, l, p, w) ==
  SetWindow(PushBack(MkNode(s), FreshNode(s), p), l, FreshNode(s), w)

\* a new node bound to w, linked under sib instead of next to it
AddWindowInside(s, l, sib, w) ==
  SetWindow(PushBack(MkNode(s), FreshNode(s), sib), l, FreshNode(s), w)

\* a new node bound to w, linked after sib
AddWindowAfter(s, l, sib, w) ==
  SetWindow(InsertAfter(MkNode(s), FreshNode(s), sib), l, FreshNode(s), w)

\* nest_in_container_internal; the container is NestResult(s, node)
NestResult(s, node) ==
  IF PrevSibling(s, node) = NoNode /\ NextSibling(s, node) = NoNode /\ s.par[node] # NoNode
  THEN s.par[node]
  ELSE FreshNode(s)

SelectLocallyIf(s, cond, n) == IF cond THEN SelectLocally(s, n) ELSE s

\* the arm of nest_in_container_internal for a node with siblings
NestUnderNew(s, node, kind, np) ==
  LET isSel == LocalSelection(s, s.par[node]) = node
      s1 == InsertBefore(MkNode(s), np, node)
      s2 == AssumeSizeOf(s1, np, node)
      s3 == DetachPushBack(s2, node, np)
      s4 == SelectLocallyIf(s3, isSel, np)
      s5 == SelectLocally(s4, node)
  IN SetKind(s5, np, kind)

\* the arm for the layout's root: a new root takes its place above it
NestUnderNewRoot(s, l, node, kind, nr) ==
  LET s2 == SetRoot(MkNode(s), l, nr)
      s3 == PushBack(s2, node, nr)
      s4 == SelectLocally(s3, node)
  IN SetKind(s4, nr, kind)

NestInContainerInternal(s, l, node, kind) ==
  IF ~Ok(s) THEN s
  ELSE IF PrevSibling(s, node) = NoNode /\ NextSibling(s, node) = NoNode /\ s.par[node] # NoNode
       THEN SetKind(s, s.par[node], kind)
  ELSE IF s.par[node] # NoNode THEN NestUnderNew(s, node, kind, FreshNode(s))
  ELSE NestUnderNewRoot(s, l, node, kind, FreshNode(s))

\* self.select(node) for the node set_window has just bound to w in layout l
SelectNewest(s, l, w) ==
  IF ~Ok(s) THEN s ELSE Select(s, s.wn[w][Len(s.wn[w])][2])

\* an insertion that never wraps the selection, however many siblings it has
SmartWindowInsertionFlat(s, l, selection, w) == AddWindowAfter(s, l, selection, w)

\* smart_window_insertion
SmartWindowInsertion(s, l, selection, w) ==
  IF s.par[selection] # NoNode /\ Len(s.kids[s.par[selection]]) >= 4
     /\ ~IsGroup(Kind(s, s.par[selection]))
  THEN AddWindowUnder(NestInContainerInternal(s, l, selection, Kind(s, s.par[selection])),
                      l, NestResult(s, selection), w)
  ELSE AddWindowAfter(s, l, selection, w)

\* add_window_after_selection with the selection at hand; the new node is
\* the last one made, so it is the one Select names
AddWindowAt(s, l, selection, w) ==
  IF s.par[selection] = NoNode
  THEN Select(AddWindowUnder(s, l, selection, w), FreshNode(s))
  ELSE SelectNewest(SmartWindowInsertion(s, l, selection, w), l, w)

\* an insertion that also makes the layout's root a plain container
AddWindowAfterSelectionRetag(s, l, w) ==
  AddWindowAt(SetKind(s, Root(s, l), KindFromOrientation(KindOrientation(Kind(s, Root(s, l))))),
              l, Selection(s, l), w)

\* add_window_after_selection
AddWindowAfterSelectionOp(s, l, w) == AddWindowAt(s, l, Selection(s, l), w)

RECURSIVE RemoveNodes(_, _)
RemoveNodes(s, ns) ==
  IF ns = <<>> THEN s ELSE RemoveNodes(DetachRemove(s, Head(ns)), Tail(ns))

\* remove_window: take_nodes_for(wid) drops the reverse index entry, then
\* every node it named is detached and removed.
RemoveWindowOp(s, w) ==
  LET ns == [i \in 1..Len(s.wn[w]) |-> s.wn[w][i][2]]
      s1 == [s EXCEPT !.wn[w] = <<>>]
  IN RemoveNodes(s1, ns)

\* select_window
SelectWindowOp(s, l, w) ==
  LET n == NodeFor(s, l, w) IN IF n # NoNode THEN Select(s, n) ELSE s

\* ------------------------------------------------------------ navigation
\* move_over
MoveOver(s, from, d) ==
  IF s.par[from] = NoNode THEN NoNode
  ELSE IF KindOrientation(Kind(s, s.par[from])) = DirOrientation(d)
       THEN IF Forward(d) THEN NextSibling(s, from) ELSE PrevSibling(s, from)
       ELSE NoNode

\* descend_into_target
RECURSIVE DescendIntoTarget(_, _, _)
DescendIntoTarget(s, current, d) ==
  IF s.kids[current] = <<>> THEN current
  ELSE LET k == Kind(s, current)
           selected == LocalSelection(s, current)
           edge == IF IsStacked(k) THEN FirstChild(s, current)
                   ELSE IF Forward(d) THEN LastChild(s, current) ELSE FirstChild(s, current)
       IN IF selected # NoNode THEN DescendIntoTarget(s, selected, d)
          ELSE DescendIntoTarget(s, edge, d)

\* traverse_internal
RECURSIVE TraverseUp(_, _, _)
TraverseUp(s, ancs, d) ==
  IF ancs = <<>> THEN NoNode
  ELSE IF MoveOver(s, Head(ancs), d) # NoNode
       THEN DescendIntoTarget(s, MoveOver(s, Head(ancs), d), d)
       ELSE TraverseUp(s, Tail(ancs), d)

TraverseInternal(s, from, d) ==
  IF MoveOver(s, from, d) # NoNode THEN MoveOver(s, from, d)
  ELSE TraverseUp(s, Tail(Ancestors(s, from)), d)

\* find_best_focus_target: the node whose window takes the focus, or NoNode
RECURSIVE FindBestFocusTarget(_, _)
RECURSIVE FirstFocusTarget(_, _)
FindBestFocusTarget(s, n) ==
  IF s.win[n] # NoWin THEN n
  ELSE IF s.kids[n] = <<>> THEN NoNode
  ELSE LET selected == LocalSelection(s, n)
           viaSel == IF selected # NoNode THEN FindBestFocusTarget(s, selected) ELSE NoNode
       IN IF viaSel # NoNode THEN viaSel ELSE FirstFocusTarget(s, s.kids[n])
FirstFocusTarget(s, seq) ==
  IF seq = <<>> THEN NoNode
  ELSE LET t == FindBestFocusTarget(s, Head(seq))
       IN IF t # NoNode THEN t ELSE FirstFocusTarget(s, Tail(seq))

\* visible_windows_under_internal, as the set of windows it returns
RECURSIVE VisibleWindowsUnder(_, _)
VisibleWindowsUnder(s, n) ==
  LET below == IF IsGroup(Kind(s, n))
               THEN (IF LocalSelection(s, n) # NoNode THEN {LocalSelection(s, n)} ELSE {})
               ELSE SeqSet(s.kids[n])
  IN (IF s.win[n] # NoWin THEN {s.win[n]} ELSE {})
     \cup UNION {VisibleWindowsUnder(s, c) : c \in below}

\* ascend_selection
AscendSelectionOp(s, l) ==
  LET selection == Selection(s, l)
      s1 == ClearRange(s, selection)
  IN IF s.par[selection] # NoNode THEN Select(s1, s.par[selection]) ELSE s1

AscendSelectionRet(s, l) == s.par[Selection(s, l)] # NoNode

\* a descend_selection that always takes the first child
DescendSelectionToFirstChild(s, l) ==
  LET selection == Selection(s, l)
      s1 == ClearRange(s, selection)
  IN IF FirstChild(s1, selection) # NoNode THEN Select(s1, FirstChild(s1, selection)) ELSE s1

\* descend_selection
DescendSelectionOp(s, l) ==
  LET selection == Selection(s, l)
      s1 == ClearRange(s, selection)
  IN IF LastSelection(s1, selection) # NoNode THEN Select(s1, LastSelection(s1, selection))
     ELSE IF FirstChild(s1, selection) # NoNode THEN Select(s1, FirstChild(s1, selection))
     ELSE s1

DescendSelectionRet(s, l) ==
  LET selection == Selection(s, l)
  IN LastSelection(s, selection) # NoNode \/ FirstChild(s, selection) # NoNode

\* the loop of move_focus over focus_node.ancestors_with_parent
RECURSIVE RevealPath(_, _, _)
RevealPath(s, node, d) ==
  LET parent == s.par[node]
  IN IF parent = NoNode THEN s
     ELSE IF IsStacked(Kind(s, parent)) /\ KindOrientation(Kind(s, parent)) # DirOrientation(d)
          THEN RevealPath(s, parent, d)
          ELSE RevealPath(SelectLocally(s, node), parent, d)

\* move_focus
MoveFocusTarget(s, l, d) ==
  LET newNode == TraverseInternal(s, Selection(s, l), d)
  IN IF newNode = NoNode THEN NoNode ELSE FindBestFocusTarget(s, newNode)

MoveFocusAscends(s, l, d) ==
  LET s1 == ClearRange(s, Selection(s, l))
      focus == MoveFocusTarget(s1, l, d)
  IN IF focus = NoNode THEN AscendSelectionOp(s, l) ELSE RevealPath(s1, focus, d)

MoveFocusOp(s, l, d) ==
  LET selection == Selection(s, l)
      s1 == ClearRange(s, selection)
      focus == MoveFocusTarget(s1, l, d)
  IN IF focus = NoNode THEN s1 ELSE RevealPath(s1, focus, d)

\* highest_revealed of move_focus: the topmost node on the path from the focus
\* node whose local selection changed under a group parent
RECURSIVE HighestRevealed(_, _, _, _)
HighestRevealed(s, node, d, highest) ==
  LET parent == s.par[node]
  IN IF parent = NoNode THEN highest
     ELSE IF IsStacked(Kind(s, parent)) /\ KindOrientation(Kind(s, parent)) # DirOrientation(d)
          THEN HighestRevealed(s, parent, d, highest)
          ELSE HighestRevealed(s, parent, d,
                 IF SelectLocallyChanged(s, node) /\ IsGroup(Kind(s, parent))
                 THEN node ELSE highest)

\* the pair move_focus returns: the focus window (NoWin for None) and the
\* windows to raise
MoveFocusRet(s, l, d) ==
  LET s1 == ClearRange(s, Selection(s, l))
      focus == MoveFocusTarget(s1, l, d)
  IN IF focus = NoNode THEN <<NoWin, {}>>
     ELSE <<s.win[focus],
            VisibleWindowsUnder(RevealPath(s1, focus, d), HighestRevealed(s1, focus, d, focus))>>

\* the pair move_focus_level_restricted returns
MoveFocusLevelRestrictedRet(s, l, d) ==
  LET s1 == ClearRange(s, Selection(s, l))
      sibling == MoveOver(s1, Selection(s, l), d)
  IN IF sibling = NoNode THEN <<NoWin, {}>>
     ELSE <<s.win[sibling], VisibleWindowsUnder(Select(s1, sibling), sibling)>>

\* move_focus_level_restricted
MoveFocusLevelRestrictedOp(s, l, d) ==
  LET selection == Selection(s, l)
      s1 == ClearRange(s, selection)
      sibling == MoveOver(s1, selection, d)
  IN IF sibling # NoNode THEN Select(s1, sibling) ELSE s1

\* next_sibling_window
NextSiblingWindowOp(s, l) ==
  LET selection == Selection(s, l)
      s1 == ClearRange(s, selection)
      parent == s.par[selection]
  IN IF NextSibling(s1, selection) # NoNode THEN Select(s1, NextSibling(s1, selection))
     ELSE IF parent # NoNode /\ FirstChild(s1, parent) # NoNode /\ FirstChild(s1, parent) # selection
          THEN Select(s1, FirstChild(s1, parent))
          ELSE s1

\* prev_sibling_window
PrevSiblingWindowOp(s, l) ==
  LET selection == Selection(s, l)
      s1 == ClearRange(s, selection)
      parent == s.par[selection]
  IN IF PrevSibling(s1, selection) # NoNode THEN Select(s1, PrevSibling(s1, selection))
     ELSE IF parent # NoNode /\ LastChild(s1, parent) # NoNode /\ LastChild(s1, parent) # selection
          THEN Select(s1, LastChild(s1, parent))
          ELSE s1

\* a probe that visits the children first-to-last whatever the direction
WindowInDirectionFromForward(s, n, d) ==
  LET bound == SelectSeq(Preorder(s, n), LAMBDA m : s.win[m] # NoWin)
  IN IF bound = <<>> THEN NoWin ELSE s.win[bound[1]]

\* window_in_direction_from
RECURSIVE WindowInDirectionFrom(_, _, _)
RECURSIVE WindowInDirectionSeq(_, _, _)
WindowInDirectionFrom(s, n, d) ==
  IF s.win[n] # NoWin THEN s.win[n]
  ELSE WindowInDirectionSeq(s, IF Forward(d) THEN s.kids[n] ELSE Reverse(s.kids[n]), d)
WindowInDirectionSeq(s, seq, d) ==
  IF seq = <<>> THEN NoWin
  ELSE LET w == WindowInDirectionFrom(s, Head(seq), d)
       IN IF w # NoWin THEN w ELSE WindowInDirectionSeq(s, Tail(seq), d)

\* window_in_direction
WindowInDirection(s, l, d) == WindowInDirectionFrom(s, Root(s, l), d)

\* --------------------------------------------------- ranges and grouping
\* a read through a handle: the handle of a removed node cannot be used
Touch(s, n, msg) == IF Ok(s) /\ n \notin s.alive THEN Trap(s, msg) ELSE s

RECURSIVE RangeWalk(_, _, _)
RangeWalk(s, cur, end) ==
  IF cur = end \/ NextSibling(s, cur) = NoNode THEN <<cur>>
  ELSE <<cur>> \o RangeWalk(s, NextSibling(s, cur), end)

\* get_selection_range_nodes
GetSelectionRangeNodes(s, selection) ==
  IF HasRange(s, selection)
  THEN RangeWalk(s, RangeStart(s, selection), RangeEnd(s, selection))
  ELSE <<selection>>

\* get_selection_range_nodes asks a removed range_start for its next sibling
RangeWalkStale(s, selection) ==
  /\ HasRange(s, selection)
  /\ RangeStart(s, selection) # RangeEnd(s, selection)
  /\ RangeStart(s, selection) \notin s.alive

\* increase_selection_left
IncreaseSelectionLeftOp(s, l) ==
  LET selection == Selection(s, l)
      start == IF HasRange(s, selection) THEN RangeStart(s, selection) ELSE selection
      end == IF HasRange(s, selection) THEN RangeEnd(s, selection) ELSE selection
      s1 == Touch(s, start, "increase_selection_left: removed range_start")
  IN IF Ok(s1) /\ PrevSibling(s1, start) # NoNode
     THEN SetRange(s1, selection, PrevSibling(s1, start), end)
     ELSE s1

\* increase_selection_right
IncreaseSelectionRightOp(s, l) ==
  LET selection == Selection(s, l)
      start == IF HasRange(s, selection) THEN RangeStart(s, selection) ELSE selection
      end == IF HasRange(s, selection) THEN RangeEnd(s, selection) ELSE selection
      s1 == Touch(s, end, "increase_selection_right: removed range_end")
  IN IF Ok(s1) /\ NextSibling(s1, end) # NoNode
     THEN SetRange(s1, selection, start, NextSibling(s1, end))
     ELSE s1

\* decrease_selection_left
DecreaseSelectionLeftOp(s, l) ==
  LET selection == Selection(s, l)
      start == RangeStart(s, selection)
      end == RangeEnd(s, selection)
      s1 == Touch(s, start, "decrease_selection_left: removed range_start")
  IN IF ~HasRange(s, selection) THEN s
     ELSE IF start = end THEN ClearRange(s, selection)
     ELSE IF Ok(s1) /\ NextSibling(s1, start) # NoNode
          THEN SetRange(s1, selection, NextSibling(s1, start), end)
          ELSE s1

DecreaseSelectionRightClears(s, l) ==
  IF HasRange(s, Selection(s, l)) THEN ClearRange(s, Selection(s, l)) ELSE s

\* decrease_selection_right
DecreaseSelectionRightOp(s, l) ==
  LET selection == Selection(s, l)
      start == RangeStart(s, selection)
      end == RangeEnd(s, selection)
      s1 == Touch(s, end, "decrease_selection_right: removed range_end")
  IN IF ~HasRange(s, selection) THEN s
     ELSE IF start = end THEN ClearRange(s, selection)
     ELSE IF Ok(s1) /\ PrevSibling(s1, end) # NoNode
          THEN SetRange(s1, selection, start, PrevSibling(s1, end))
          ELSE s1

\* split_selection
SplitSelectionOp(s, l, kind) ==
  NestInContainerInternal(s, l, Selection(s, l), kind)

RECURSIVE PushBackAll(_, _, _)
PushBackAll(s, ns, p) ==
  IF ns = <<>> THEN s ELSE PushBackAll(DetachPushBack(s, Head(ns), p), Tail(ns), p)

RECURSIVE InsertAfterChain(_, _, _)
InsertAfterChain(s, ns, last) ==
  IF ns = <<>> THEN s
  ELSE InsertAfterChain(DetachInsertAfter(s, Head(ns), last), Tail(ns), Head(ns))

\* the loop of remove_unnecessary_container_internal over the only child
MoveOnlyChildOut(s, container) ==
  IF s.kids[container] = <<>> THEN s
  ELSE IF s.par[container] # NoNode
       THEN DetachPushBack(s, s.kids[container][1], s.par[container])
       ELSE DetachRemove(s, s.kids[container][1])

\* remove_unnecessary_container_internal
RemoveUnnecessaryContainerInternal(s, container) ==
  IF ~Ok(s) THEN s
  ELSE IF container \notin s.alive
       THEN Trap(s, "remove_unnecessary_container: removed container")
  ELSE IF Len(s.kids[container]) <= 1
       THEN DetachRemove(MoveOnlyChildOut(s, container), container)
  ELSE s

\* the selection unjoin_selection restores at its end
UnjoinReselect(s, localSel, grandparent) ==
  IF localSel # NoNode THEN Select(s, localSel)
  ELSE IF Ok(s) /\ FirstChild(s, grandparent) # NoNode
       THEN Select(s, FirstChild(s, grandparent))
  ELSE s

UnjoinFrom(s, parent) ==
  IF s.par[parent] # NoNode
  THEN UnjoinReselect(
         DetachRemove(PushBackAll(s, s.kids[parent], s.par[parent]), parent),
         LocalSelection(s, parent), s.par[parent])
  ELSE IF Len(s.kids[parent]) = 2 THEN RemoveUnnecessaryContainerInternal(s, parent)
  ELSE s

\* unjoin_selection
UnjoinSelectionOp(s, l) ==
  IF s.par[Selection(s, l)] = NoNode THEN s ELSE UnjoinFrom(s, s.par[Selection(s, l)])

CleanUpParentUnguarded(s, parent, onlyIfNested) ==
  IF ~Ok(s) THEN s
  ELSE IF parent \notin s.alive THEN Trap(s, "parent.children: removed parent")
  ELSE IF Len(s.kids[parent]) = 1 THEN RemoveUnnecessaryContainerInternal(s, parent)
  ELSE IF Len(s.kids[parent]) = 0 THEN DetachRemove(s, parent)
  ELSE s

\* the clean-up both ungroup_selection and move_selection_to_sibling_* run
\* on the old parent after the move
CleanUpParent(s, parent, onlyIfNested) ==
  IF ~Ok(s) THEN s
  ELSE IF parent \notin s.alive THEN Trap(s, "parent.children: removed parent")
  ELSE IF Len(s.kids[parent]) = 1
       THEN IF onlyIfNested /\ s.par[parent] = NoNode THEN s
            ELSE RemoveUnnecessaryContainerInternal(s, parent)
  ELSE IF Len(s.kids[parent]) = 0 THEN DetachRemove(s, parent)
  ELSE s

SelectIf(s, cond, n) == IF cond THEN Select(s, n) ELSE s

UngroupFrom(s, selection, parent) ==
  IF parent = NoNode THEN s
  ELSE IF s.par[parent] = NoNode THEN s
  ELSE SelectIf(CleanUpParent(DetachInsertAfter(s, selection, parent), parent, FALSE),
                LocalSelection(s, parent) = selection, selection)

\* ungroup_selection
UngroupSelectionOp(s, l) == UngroupFrom(s, Selection(s, l), s.par[Selection(s, l)])

UngroupSelectionRet(s, l) ==
  LET parent == s.par[Selection(s, l)]
  IN parent # NoNode /\ s.par[parent] # NoNode

\* a sibling that is a container: it has children and no window
IsContainerNode(s, n) == s.kids[n] # <<>> /\ s.win[n] = NoWin

RECURSIVE FirstContainerNext(_, _)
FirstContainerNext(s, cur) ==
  LET nx == NextSibling(s, cur)
  IN IF nx = NoNode THEN NoNode
     ELSE IF IsContainerNode(s, nx) THEN nx ELSE FirstContainerNext(s, nx)

RECURSIVE FirstContainerPrev(_, _)
FirstContainerPrev(s, cur) ==
  LET pv == PrevSibling(s, cur)
  IN IF pv = NoNode THEN NoNode
     ELSE IF IsContainerNode(s, pv) THEN pv ELSE FirstContainerPrev(s, pv)

MoveToSibling(s, selection, parent, sibling) ==
  IF parent = NoNode \/ sibling = NoNode THEN s
  ELSE CleanUpParent(
         SelectIf(DetachPushBack(s, selection, sibling),
                  LocalSelection(s, parent) = selection, selection),
         parent, TRUE)

MoveSelectionToSibling(s, l, sibling) ==
  MoveToSibling(s, Selection(s, l), s.par[Selection(s, l)], sibling)

\* move_selection_to_sibling_next
SiblingNextTarget(s, l) ==
  LET selection == Selection(s, l)
  IN IF FirstContainerNext(s, selection) # NoNode THEN FirstContainerNext(s, selection)
     ELSE FirstContainerPrev(s, selection)

MoveSelectionToSiblingNextOp(s, l) == MoveSelectionToSibling(s, l, SiblingNextTarget(s, l))

\* move_selection_to_sibling_prev
SiblingPrevTarget(s, l) ==
  LET selection == Selection(s, l)
  IN IF FirstContainerPrev(s, selection) # NoNode THEN FirstContainerPrev(s, selection)
     ELSE FirstContainerNext(s, selection)

MoveSelectionToSiblingPrevOp(s, l) == MoveSelectionToSibling(s, l, SiblingPrevTarget(s, l))

\* the children of a dissolved container take its place: the first before
\* it, each further one after the one before
SpliceOut(s, children, container) ==
  InsertAfterChain(DetachInsertBefore(s, children[1], container), Tail(children), children[1])

\* the end of the first arm of ungroup_siblings: the selection goes back to
\* the child that had it, or else to the first child
UngroupReselect(s, locallySelected, first, wasSelectedLocally, parent) ==
  IF locallySelected # NoNode THEN Select(s, locallySelected)
  ELSE IF wasSelectedLocally THEN SelectLocally(Select(s, first), parent)
  ELSE Select(s, first)

\* the container is removed once its children are out
UngroupRemove(s, container, locallySelected, first, parent) ==
  UngroupReselect(DetachRemove(s, container), locallySelected, first,
                  Ok(s) /\ LocalSelection(s, parent) = container, parent)

\* the first arm: the selected container is dissolved
UngroupContainer(s, selection, parent) ==
  IF parent = NoNode THEN s
  ELSE UngroupRemove(SpliceOut(s, s.kids[selection], selection), selection,
                     LocalSelection(s, selection), s.kids[selection][1], parent)

\* the second arm: the parent of the selection is dissolved
UngroupParent(s, parent) ==
  IF parent = NoNode THEN s
  ELSE IF s.par[parent] = NoNode THEN s
  ELSE SelectIf(DetachRemove(SpliceOut(s, s.kids[parent], parent), parent),
                LocalSelection(s, parent) # NoNode, LocalSelection(s, parent))

UngroupSiblingsFrom(s, selection) ==
  IF IsContainerNode(s, selection)
  THEN UngroupContainer(s, selection, s.par[selection])
  ELSE UngroupParent(s, s.par[selection])

\* ungroup_siblings
UngroupSiblingsOp(s, l) == UngroupSiblingsFrom(s, Selection(s, l))

\* ---------------------------------------------------------------- stacking
StackKindForToggle(k, o) ==
  CASE k = "HorizontalStack" -> "Vertical"
    [] k = "VerticalStack" -> "Horizontal"
    [] k = "Horizontal" ->
         (IF o \in {"Perpendicular", "Vertical"} THEN "VerticalStack" ELSE "HorizontalStack")
    [] OTHER ->
         (IF o \in {"Perpendicular", "Horizontal"} THEN "HorizontalStack" ELSE "VerticalStack")

StackKindFor(k, o) ==
  CASE k = "HorizontalStack" -> "VerticalStack"
    [] k = "VerticalStack" -> "HorizontalStack"
    [] k = "Horizontal" ->
         (IF o \in {"Perpendicular", "Vertical"} THEN "VerticalStack" ELSE "HorizontalStack")
    [] OTHER ->
         (IF o \in {"Perpendicular", "Horizontal"} THEN "HorizontalStack" ELSE "VerticalStack")

\* apply_stacking_to_parent_of_selection
ApplyStackingToParentOfSelectionOp(s, l, o) ==
  LET selection == Selection(s, l)
      container == IF s.win[selection] # NoWin THEN s.par[selection] ELSE selection
      s1 == SetKind(s, container, StackKindFor(Kind(s, container), o))
  IN IF ~Ok(s) \/ container = NoNode THEN s
     ELSE IF FirstChild(s1, container) # NoNode THEN Select(s1, FirstChild(s1, container))
     ELSE s1

UnstackKindFor(k, o) ==
  IF k = "HorizontalStack"
  THEN (IF o \in {"Perpendicular", "Vertical"} THEN "Vertical" ELSE "Horizontal")
  ELSE (IF o \in {"Perpendicular", "Horizontal"} THEN "Horizontal" ELSE "Vertical")

FirstStacked(s, seq) ==
  LET hits == SelectSeq(seq, LAMBDA n : IsStacked(Kind(s, n)))
  IN IF hits = <<>> THEN NoNode ELSE hits[1]

\* the container unstack_parent_of_selection acts on
UnstackTarget(s, l) ==
  LET selection == Selection(s, l)
  IN IF s.win[selection] # NoWin THEN FirstStacked(s, Tail(Ancestors(s, selection)))
     ELSE IF IsStacked(Kind(s, selection)) THEN selection
     ELSE FirstStacked(s, s.kids[selection])

\* unstack_parent_of_selection
UnstackParentOfSelectionOp(s, l, o) ==
  LET container == UnstackTarget(s, l)
  IN IF container = NoNode THEN s
     ELSE SetKind(s, container, UnstackKindFor(Kind(s, container), o))

\* parent_of_selection_is_stacked
ParentOfSelectionIsStacked(s, l) ==
  LET selection == Selection(s, l)
  IN IF s.win[selection] # NoWin
     THEN FirstStacked(s, Tail(Ancestors(s, selection))) # NoNode
     ELSE IsStacked(Kind(s, selection)) \/ FirstStacked(s, s.kids[selection]) # NoNode

\* the end of group_selection
GroupFinish(s, l, autoStack, o) ==
  IF autoStack /\ Ok(s) THEN ApplyStackingToParentOfSelectionOp(s, l, o) ELSE s

GroupAscend(s, l) == IF Ok(s) THEN AscendSelectionOp(s, l) ELSE s

\* the new container takes the place and the size of the first node, and
\* the nodes move into it
GroupInto(s, nodes, container, kind) ==
  PushBackAll(
    AssumeSizeOf(SetKind(InsertBefore(MkNode(s), container, nodes[1]), container, kind),
                 container, nodes[1]),
    nodes, container)

GroupNodes(s, l, selection, nodes, autoStack, o) ==
  IF s.par[nodes[1]] = NoNode THEN s
  ELSE GroupFinish(
         GroupAscend(
           ClearRange(GroupInto(s, nodes, FreshNode(s), Kind(s, s.par[nodes[1]])), selection),
           l),
         l, autoStack, o)

GroupFrom(s, l, selection, autoStack, o) ==
  IF RangeWalkStale(s, selection)
     \/ (HasRange(s, selection) /\ RangeStart(s, selection) \notin s.alive)
  THEN Trap(s, "group_selection: removed range node")
  ELSE GroupNodes(s, l, selection, GetSelectionRangeNodes(s, selection), autoStack, o)

\* group_selection
GroupSelectionOp(s, l, autoStack, o) == GroupFrom(s, l, Selection(s, l), autoStack, o)

\* ------------------------------------------------------------------ joining
\* find_direct_sibling_target
FindDirectSiblingTarget(s, from, d) ==
  IF Forward(d) THEN NextSibling(s, from) ELSE PrevSibling(s, from)

\* find_stack_neighbor_target
FindStackNeighborTarget(s, from, d) ==
  IF s.par[from] = NoNode THEN NoNode
  ELSE IF ~IsStacked(Kind(s, s.par[from])) THEN NoNode
  ELSE IF Forward(d) THEN NextSibling(s, from) ELSE PrevSibling(s, from)

\* find_best_container_child_for_joining
FindBestContainerChildForJoining(s, container, d) ==
  IF s.kids[container] = <<>> THEN NoNode
  ELSE IF KindOrientation(Kind(s, container)) = DirOrientation(d)
       THEN (IF Forward(d) THEN LastChild(s, container) ELSE FirstChild(s, container))
  ELSE IF LocalSelection(s, container) # NoNode THEN LocalSelection(s, container)
  ELSE FirstChild(s, container)

\* find_hierarchical_join_target
RECURSIVE HierarchicalUp(_, _, _)
HierarchicalUp(s, ancs, d) ==
  IF ancs = <<>> THEN NoNode
  ELSE IF FindDirectSiblingTarget(s, Head(ancs), d) # NoNode
       THEN FindBestContainerChildForJoining(s, FindDirectSiblingTarget(s, Head(ancs), d), Opposite(d))
       ELSE HierarchicalUp(s, Tail(ancs), d)

FindHierarchicalJoinTarget(s, from, d) == HierarchicalUp(s, Tail(Ancestors(s, from)), d)

\* find_natural_join_target
OrElse(a, b) == IF a # NoNode THEN a ELSE b

\* the neighbour of the parent, taken when the parent runs along the
\* direction and has two children or the node is at its edge
JoinViaParent(s, from, d) ==
  IF s.par[from] # NoNode
     /\ KindOrientation(Kind(s, s.par[from])) = DirOrientation(d)
     /\ ~IsGroup(Kind(s, s.par[from]))
     /\ (Len(s.kids[s.par[from]]) = 2 \/ FindDirectSiblingTarget(s, from, d) = NoNode)
  THEN FindDirectSiblingTarget(s, s.par[from], d)
  ELSE NoNode

\* what is made of the node traverse_internal found
JoinViaTraversed(s, traversed, d) ==
  IF traversed = NoNode THEN NoNode
  ELSE IF s.win[traversed] # NoWin THEN traversed
  ELSE OrElse(FindBestContainerChildForJoining(s, traversed, d), traversed)

FindNaturalJoinTarget(s, from, d) ==
  OrElse(JoinViaParent(s, from, d),
    OrElse(FindDirectSiblingTarget(s, from, d),
      OrElse(FindStackNeighborTarget(s, from, d),
        OrElse(JoinViaTraversed(s, TraverseInternal(s, from, d), d),
               FindHierarchicalJoinTarget(s, from, d)))))

IsAncestorOrSelf(s, a, n) == a \in SeqSet(Ancestors(s, n))

FirstCommon(s, ancs, n2) ==
  LET hits == SelectSeq(ancs, LAMBDA a : IsAncestorOrSelf(s, a, n2))
  IN IF hits = <<>> THEN NoNode ELSE hits[1]

\* find_or_create_common_parent_internal: the node it returns ...
CommonParentNode(s, n1, n2) ==
  IF n1 = n2 THEN n1
  ELSE IF IsAncestorOrSelf(s, n2, n1) THEN n2
  ELSE IF IsAncestorOrSelf(s, n1, n2) THEN n1
  ELSE FreshNode(s)

\* ... and the state it leaves
FindOrCreateCommonParentInternal(s, n1, n2) ==
  LET c == FreshNode(s)
      ancestor == FirstCommon(s, Ancestors(s, n1), n2)
  IN IF ~Ok(s) THEN s
     ELSE IF n1 = n2 \/ IsAncestorOrSelf(s, n2, n1) \/ IsAncestorOrSelf(s, n1, n2) THEN s
     ELSE IF s.par[n1] # NoNode /\ s.par[n1] = s.par[n2]
     THEN LET s1 == InsertBefore(MkNode(s), c, n1)
              s2 == AssumeSizeOf(AssumeSizeOf(s1, c, n1), c, n2)
          IN DetachPushBack(DetachPushBack(s2, n1, c), n2, c)
     ELSE IF ancestor # NoNode
     THEN LET s1 == SetKind(PushBack(MkNode(s), c, ancestor), c, "Horizontal")
          IN DetachPushBack(DetachPushBack(s1, n1, c), n2, c)
     ELSE Trap(s, "Nodes are not in the same tree, cannot find common parent")

\* find_or_create_smart_common_parent reuses a two-child parent that already
\* runs along the direction
SmartReuse(s, n1, n2, d) ==
  /\ s.par[n1] # NoNode
  /\ s.par[n1] = s.par[n2]
  /\ KindOrientation(Kind(s, s.par[n1])) = DirOrientation(d)
  /\ ~IsGroup(Kind(s, s.par[n1]))
  /\ Len(s.kids[s.par[n1]]) = 2

SmartCommonParentNode(s, n1, n2, d) ==
  IF SmartReuse(s, n1, n2, d) THEN s.par[n1] ELSE CommonParentNode(s, n1, n2)

FindOrCreateSmartCommonParent(s, n1, n2, d) ==
  IF SmartReuse(s, n1, n2, d) THEN s ELSE FindOrCreateCommonParentInternal(s, n1, n2)

\* the tail shared by the arms of perform_natural_join: make the common
\* parent, keep a stack a stack, select it
SetJoinKind(s, cp, d, keepStack) ==
  IF ~Ok(s) THEN s
  ELSE IF cp \notin s.alive THEN Trap(s, "layout: removed common parent")
  ELSE Select(SetKind(s, cp, IF keepStack /\ IsStacked(Kind(s, cp)) THEN Kind(s, cp)
                             ELSE KindFromOrientation(DirOrientation(d))), cp)

JoinUnder(s, n1, n2, d, keepStack) ==
  SetJoinKind(FindOrCreateSmartCommonParent(s, n1, n2, d),
              SmartCommonParentNode(s, n1, n2, d), d, keepStack)

\* are_containers_mergeable
AreContainersMergeable(s, c1, c2, d) ==
  /\ KindOrientation(Kind(s, c1)) = DirOrientation(d)
  /\ KindOrientation(Kind(s, c2)) = DirOrientation(d)
  /\ ~IsGroup(Kind(s, c1))
  /\ ~IsGroup(Kind(s, c2))

\* merge_compatible_containers
MergeCompatibleContainers(s, c1, c2, d) == JoinUnder(s, c1, c2, d, FALSE)

\* perform_natural_join
StackParent(s, n) ==
  IF s.par[n] # NoNode /\ IsStacked(Kind(s, s.par[n])) THEN s.par[n] ELSE NoNode

\* the second match of perform_natural_join, on the two parents
JoinByParents(s, selection, target, d, sp, tp) ==
  IF sp # NoNode /\ sp = tp /\ IsStacked(Kind(s, sp))
  THEN Select(SetKind(s, sp, KindFromOrientation(DirOrientation(d))), sp)
  ELSE IF sp # NoNode /\ tp # NoNode /\ sp # tp /\ AreContainersMergeable(s, sp, tp, d)
  THEN MergeCompatibleContainers(s, sp, tp, d)
  ELSE JoinUnder(s, selection, target, d, TRUE)

\* the first match, on the two stack parents
JoinByStacks(s, selection, target, d, ssp, tsp) ==
  IF ssp # NoNode /\ tsp = NoNode THEN Select(DetachPushBack(s, target, ssp), ssp)
  ELSE IF ssp = NoNode /\ tsp # NoNode THEN Select(DetachPushBack(s, selection, tsp), tsp)
  ELSE JoinByParents(s, selection, target, d, s.par[selection], s.par[target])

PerformNaturalJoin(s, selection, target, d) ==
  IF ~Ok(s) THEN s
  ELSE JoinByStacks(s, selection, target, d, StackParent(s, selection), StackParent(s, target))

\* join_selection_with_direction_level_restricted
JoinIfTarget(s, selection, target, d) ==
  IF target = NoNode THEN s ELSE PerformNaturalJoin(s, selection, target, d)

JoinSelectionWithDirectionLevelRestrictedOp(s, l, d) ==
  JoinIfTarget(s, Selection(s, l), MoveOver(s, Selection(s, l), d), d)

\* join_selection_with_direction
\* the selection is lifted to its parent when it is a leaf at the edge of a
\* container that runs along the direction
JoinLift(s, sel0, target, d) ==
  /\ s.par[sel0] # NoNode
  /\ KindOrientation(Kind(s, s.par[sel0])) = DirOrientation(d)
  /\ ~IsGroup(Kind(s, s.par[sel0]))
  /\ (FindDirectSiblingTarget(s, sel0, d) = NoNode \/ Len(s.kids[s.par[sel0]]) = 2)
  /\ s.par[target] # s.par[sel0]
  /\ ~IsAncestorOrSelf(s, s.par[sel0], target)

\* a container running along the direction absorbs the target
JoinAbsorb(s, selection, target, d) ==
  /\ s.win[selection] = NoWin
  /\ KindOrientation(Kind(s, selection)) = DirOrientation(d)
  /\ ~IsGroup(Kind(s, selection))
  /\ ~IsAncestorOrSelf(s, selection, target)
  /\ ~IsAncestorOrSelf(s, target, selection)
  /\ s.par[target] # selection

\* the end of join_selection_with_direction
AfterJoin(s, l, selection) ==
  IF ~Ok(s) THEN s
  ELSE IF s.win[selection] # NoWin THEN Select(s, selection)
  ELSE DescendSelectionOp(s, l)

JoinFrom(s, l, selection, target, d) ==
  IF JoinAbsorb(s, selection, target, d)
  THEN Select(IF Forward(d) \/ FirstChild(s, selection) = NoNode
              THEN DetachPushBack(s, target, selection)
              ELSE DetachInsertBefore(s, target, FirstChild(s, selection)),
              selection)
  ELSE AfterJoin(PerformNaturalJoin(s, selection, target, d), l, selection)

JoinTowards(s, l, sel0, target, d) ==
  IF target = NoNode THEN s
  ELSE JoinFrom(s, l, IF JoinLift(s, sel0, target, d) THEN s.par[sel0] ELSE sel0, target, d)

JoinSelectionWithDirectionOp(s, l, d) ==
  JoinTowards(s, l, Selection(s, l), FindNaturalJoinTarget(s, Selection(s, l), d), d)

\* ------------------------------------------------------------------- moving
\* the loop of move_node_inner that descends from the sibling
RECURSIVE MoveDescend(_, _, _)
MoveDescend(s, node, d) ==
  LET next == IF LocalSelection(s, node) # NoNode THEN LocalSelection(s, node)
              ELSE FirstChild(s, node)
  IN IF next = NoNode THEN node
     ELSE IF KindOrientation(Kind(s, node)) = DirOrientation(d) THEN next
     ELSE MoveDescend(s, next, d)

\* the first proper ancestor whose parent runs along the direction
TargetAncestor(s, n, d) ==
  LET hits == SelectSeq(Tail(Ancestors(s, n)),
                        LAMBDA a : s.par[a] # NoNode
                                   /\ KindOrientation(Kind(s, s.par[a])) = DirOrientation(d))
  IN IF hits = <<>> THEN NoNode ELSE hits[1]

OldRoot(s, n) == Ancestors(s, n)[Len(Ancestors(s, n))]

\* move_node_inner: whether it moves ...
MoveNodeInnerRet(s, n, d) ==
  \/ MoveOver(s, n, d) # NoNode
  \/ TargetAncestor(s, n, d) # NoNode
  \/ KindOrientation(Kind(s, OldRoot(s, n))) # DirOrientation(d)
  \/ FindDirectSiblingTarget(s, n, d) = NoNode

\* ... and the state it leaves
DetachInsert(s, n, dest, after) ==
  IF after THEN DetachInsertAfter(s, n, dest) ELSE DetachInsertBefore(s, n, dest)

MoveNodeInner(s, l, n, d) ==
  IF ~MoveNodeInnerRet(s, n, d) THEN s
  ELSE IF MoveOver(s, n, d) # NoNode
       THEN DetachInsert(s, n, MoveDescend(s, MoveOver(s, n, d), d),
                         (MoveDescend(s, MoveOver(s, n, d), d) = MoveOver(s, n, d)) = Forward(d))
  ELSE IF TargetAncestor(s, n, d) # NoNode
       THEN DetachInsert(s, n, TargetAncestor(s, n, d), Forward(d))
  ELSE DetachInsert(
         NestInContainerInternal(s, l, OldRoot(s, n), KindFromOrientation(DirOrientation(d))),
         n, OldRoot(s, n), Forward(d))

RECURSIVE SelectLocallyUntil(_, _, _)
SelectLocallyUntil(s, ancs, stop) ==
  IF ancs = <<>> \/ ~Ok(s) THEN s
  ELSE IF Head(ancs) = stop THEN s
  ELSE SelectLocallyUntil(SelectLocally(s, Head(ancs)), Tail(ancs), stop)

\* the loop that follows a move: select_locally for the moved node and its
\* new ancestors up to, and not including, the old parent
Reselect(s, cond, n, oldParent) ==
  IF Ok(s) /\ cond THEN SelectLocallyUntil(s, Ancestors(s, n), oldParent) ELSE s

\* a move that leaves the local selections as the detach left them
MoveNodeUnselected(s, l, n, d) ==
  IF ~Ok(s) \/ s.par[n] = NoNode THEN s ELSE MoveNodeInner(s, l, n, d)

\* move_node
MoveNode(s, l, n, d) ==
  IF ~Ok(s) \/ s.par[n] = NoNode THEN s
  ELSE Reselect(MoveNodeInner(s, l, n, d),
                MoveNodeInnerRet(s, n, d) /\ LocalSelection(s, s.par[n]) = n,
                n, s.par[n])

\* move_selection
MoveSelectionOp(s, l, d) ==
  MoveNode(ClearRange(s, Selection(s, l)), l, Selection(s, l), d)

MoveSelectionRet(s, l, d) ==
  LET selection == Selection(s, l)
  IN s.par[selection] # NoNode /\ MoveNodeInnerRet(s, selection, d)

\* move_selection_level_restricted
SwapWithSibling(s, selection, sibling, d) ==
  IF sibling = NoNode THEN s ELSE DetachInsert(s, selection, sibling, Forward(d))

MoveSelectionLevelRestrictedOp(s, l, d) ==
  SwapWithSibling(ClearRange(s, Selection(s, l)), Selection(s, l),
                  MoveOver(s, Selection(s, l), d), d)

\* move_selection_to_layout_after_selection
MoveToLayout(s, fromSel, toSel) ==
  IF s.par[fromSel] = NoNode THEN s
  ELSE Reselect(IF s.par[toSel] = NoNode THEN DetachPushBack(s, fromSel, toSel)
                ELSE DetachInsertAfter(s, fromSel, toSel),
                LocalSelection(s, s.par[fromSel]) = fromSel, fromSel, s.par[fromSel])

MoveSelectionToLayoutAfterSelectionOp(s, from, to) ==
  MoveToLayout(s, Selection(s, from), Selection(s, to))

\* swap_windows
SwapWindowsOp(s, l, a, b) ==
  LET na == NodeFor(s, l, a)
      nb == NodeFor(s, l, b)
      wa == s.win[na]
      wb == s.win[nb]
      re(seq, n) == [i \in 1..Len(seq) |-> IF seq[i][1] = l THEN <<l, n>> ELSE seq[i]]
      s1 == [s EXCEPT !.win[nb] = wa, !.win[na] = wb]
      s2 == [s1 EXCEPT !.wn[a] = re(@, nb)]
  IN IF na = NoNode \/ nb = NoNode \/ na = nb THEN s
     ELSE IF wa = NoWin /\ wb = NoWin THEN s
     ELSE [s2 EXCEPT !.wn[b] = re(@, na)]

\* ----------------------------------------------------------------- resizing
Min2(a, b) == IF a <= b THEN a ELSE b

Max2(a, b) == IF a >= b THEN a ELSE b

\* division of the reals, cut towards zero to the model's size unit
Trunc(a, b) == IF a >= 0 THEN a \div b ELSE -((-a) \div b)

\* Layout::take_share; the share is a number or one of the f32 specials
TakeShare(s, node, from, share) ==
  LET fs == s.info[from].size
      ns == s.info[node].size
      a == IF share.k \in {"pinf", "nan"} THEN fs
           ELSE IF share.k = "ninf" THEN -ns
           ELSE Min2(share.v, fs)
      b == Max2(a, -ns)
  IN IF s.par[node] # s.par[from] THEN Trap(s, "take_share: assert_eq parents")
     ELSE [s EXCEPT !.info[from].size = @ - b, !.info[node].size = @ + b]

CanResize(s, n, d) ==
  /\ s.par[n] # NoNode
  /\ ~IsGroup(Kind(s, s.par[n]))
  /\ MoveOver(s, n, d) # NoNode

ResizingNode(s, node, d) ==
  LET hits == SelectSeq(Ancestors(s, node), LAMBDA a : CanResize(s, a, d))
  IN IF hits = <<>> THEN NoNode ELSE hits[1]

\* the exchange rate of resize_internal as a fraction RateNum / RateDen
Counts(s, a, d) ==
  /\ s.par[a] # NoNode
  /\ KindOrientation(Kind(s, s.par[a])) = DirOrientation(d)
  /\ ~IsGroup(Kind(s, s.par[a]))

RECURSIVE RateNum(_, _, _)
RateNum(s, ancs, d) ==
  IF ancs = <<>> THEN 1
  ELSE (IF Counts(s, Head(ancs), d) THEN s.info[Head(ancs)].size ELSE 1) * RateNum(s, Tail(ancs), d)

RECURSIVE RateDen(_, _, _)
RateDen(s, ancs, d) ==
  IF ancs = <<>> THEN 1
  ELSE (IF Counts(s, Head(ancs), d) THEN s.info[s.par[Head(ancs)]].total ELSE 1)
       * RateDen(s, Tail(ancs), d)

\* local_ratio = screen_ratio * total / exchange_rate, with screen_ratio = r[1] / r[2]
LocalRatio(s, rn, r, d) ==
  LET ancs == Tail(Ancestors(s, rn))
      num == RateNum(s, ancs, d)
      den == RateDen(s, ancs, d)
      x == r[1] * s.info[s.par[rn]].total
  IN IF num = 0 /\ den = 0 THEN [k |-> "nan", v |-> 0]
     ELSE IF den = 0 THEN [k |-> "num", v |-> 0]
     ELSE IF num = 0
          THEN [k |-> IF x > 0 THEN "pinf" ELSE IF x < 0 THEN "ninf" ELSE "nan", v |-> 0]
     ELSE [k |-> "num",
           v |-> IF (num > 0) = (den > 0) THEN Trunc(x * (IF den > 0 THEN den ELSE -den),
                                                     r[2] * (IF num > 0 THEN num ELSE -num))
                 ELSE -Trunc(x * (IF den > 0 THEN den ELSE -den),
                             r[2] * (IF num > 0 THEN num ELSE -num))]

\* resize_internal
ResizeInternalRet(s, node, d) == ResizingNode(s, node, d) # NoNode

ResizeInternal(s, node, r, d) ==
  LET rn == ResizingNode(s, node, d)
  IN IF ~Ok(s) \/ rn = NoNode THEN s
     ELSE TakeShare(s, rn, MoveOver(s, rn, d), LocalRatio(s, rn, r, d))

\* candidates.iter().any(|node| resize_internal(node, amount, d))
ResizeCandidates(s, selection) ==
  SelectSeq(Ancestors(s, selection),
            LAMBDA n : s.par[n] # NoNode /\ ~IsGroup(Kind(s, s.par[n])))

AnyResizeRet(s, cands, d) == \E i \in 1..Len(cands) : ResizeInternalRet(s, cands[i], d)

AnyResize(s, cands, r, d) ==
  LET hits == SelectSeq(cands, LAMBDA n : ResizeInternalRet(s, n, d))
  IN IF hits = <<>> THEN s ELSE ResizeInternal(s, hits[1], r, d)

\* resize_selection_by
ResizeSelectionByOp(s, l, r) ==
  LET selection == Selection(s, l)
      cands == ResizeCandidates(s, selection)
  IN IF s.win[selection] = NoWin THEN s
     ELSE IF AnyResizeRet(s, cands, "Right") THEN AnyResize(s, cands, r, "Right")
     ELSE IF AnyResizeRet(s, cands, "Down") THEN AnyResize(s, cands, r, "Down")
     ELSE IF AnyResizeRet(s, cands, "Left") THEN AnyResize(s, cands, r, "Left")
     ELSE AnyResize(s, cands, r, "Up")

\* rebalance_node
RECURSIVE RebalanceNode(_, _)
RECURSIVE RebalanceSeq(_, _)
RebalanceNode(s, n) ==
  LET children == s.kids[n]
      s1 == [s EXCEPT !.info = [m \in Nodes |->
               IF m = n THEN [@[m] EXCEPT !.total = Len(children) * One]
               ELSE IF m \in SeqSet(children) /\ @[m].size = 0 THEN [@[m] EXCEPT !.size = One]
               ELSE @[m]]]
  IN IF children = <<>> THEN s ELSE RebalanceSeq(s1, children)
RebalanceSeq(s, seq) ==
  IF seq = <<>> THEN s ELSE RebalanceSeq(RebalanceNode(s, Head(seq)), Tail(seq))

\* rebalance
RebalanceOp(s, l) == RebalanceNode(s, Root(s, l))

\* toggle_tile_orientation
ToggleTileOrientationOp(s, l) ==
  LET selection == Selection(s, l)
      target == IF s.par[selection] # NoNode THEN s.par[selection] ELSE Root(s, l)
      k == Kind(s, target)
  IN IF IsGroup(k) THEN s
     ELSE RebalanceOp(SetKind(s, target, IF k = "Horizontal" THEN "Vertical" ELSE "Horizontal"), l)

\* --------------------------------------------------------------- fullscreen
\* a set_fullscreen that leaves the within-gaps flag as it was
SetFullscreenAlone(s, n, on) == [s EXCEPT !.info[n].fs = on]

\* Layout::set_fullscreen
SetFullscreen(s, n, on) ==
  [s EXCEPT !.info[n].fs = on, !.info[n].fsg = IF on THEN FALSE ELSE @]

\* Layout::set_fullscreen_within_gaps
SetFullscreenWithinGaps(s, n, on) ==
  [s EXCEPT !.info[n].fsg = on, !.info[n].fs = IF on THEN FALSE ELSE @]

\* Layout::toggle_fullscreen
ToggleFullscreen(s, n) == SetFullscreen(s, n, ~s.info[n].fs)

\* Layout::toggle_fullscreen_within_gaps
ToggleFullscreenWithinGaps(s, n) == SetFullscreenWithinGaps(s, n, ~s.info[n].fsg)

\* toggle_fullscreen_of_selection
ToggleFullscreenOfSelectionOp(s, l) == ToggleFullscreen(s, Selection(s, l))

\* toggle_fullscreen_within_gaps_of_selection
ToggleFullscreenWithinGapsOfSelectionOp(s, l) == ToggleFullscreenWithinGaps(s, Selection(s, l))

\* ------------------------------------------------------------------- frames
\* A CGRect is [x, y, w, h].  The screen, the gap settings and the stack
\* offset are the arguments the window manager passes on every call.
Screen == [x |-> 0, y |-> 0, w |-> 1200, h |-> 800]

Env == [outer_gap |-> 10, inner_gap |-> 10, stack_offset |-> 40]

\* compute_tiling_area: the screen inset by the outer gaps
ComputeTilingArea(screen) ==
  [x |-> screen.x + Env.outer_gap, y |-> screen.y + Env.outer_gap,
   w |-> screen.w - 2 * Env.outer_gap, h |-> screen.h - 2 * Env.outer_gap]

HalfFrame == [x |-> 10, y |-> 10, w |-> 585, h |-> 780]

\* the (old_frame, new_frame) pairs on_window_resized is called with
ResizeCases ==
  { <<HalfFrame, Screen>>, <<Screen, HalfFrame>>,
    <<HalfFrame, ComputeTilingArea(Screen)>>, <<ComputeTilingArea(Screen), HalfFrame>>,
    <<HalfFrame, [HalfFrame EXCEPT !.w = 885]>>,
    <<HalfFrame, [HalfFrame EXCEPT !.h = 580]>>,
    <<[HalfFrame EXCEPT !.x = 605], [HalfFrame EXCEPT !.x = 305, !.w = 885]>>,
    <<[HalfFrame EXCEPT !.x = 305], [HalfFrame EXCEPT !.x = 5, !.w = 1185]>> }

\* the four edge movements of set_frame_from_resize, in the order it takes them
Deltas(old, new, screen) ==
  << <<"Left", old.x - new.x, screen.w>>,
     <<"Right", (new.x + new.w) - (old.x + old.w), screen.w>>,
     <<"Up", old.y - new.y, screen.h>>,
     <<"Down", (new.y + new.h) - (old.y + old.h), screen.h>> >>

NonZeroDeltas(old, new, screen) == SelectSeq(Deltas(old, new, screen), LAMBDA e : e[2] # 0)

ResizeIsGood(old, new, screen) ==
  LET nz == NonZeroDeltas(old, new, screen)
  IN /\ Len(nz) <= 2
     /\ \A i \in 2..Len(nz) : DirOrientation(nz[i][1]) # DirOrientation(nz[1][1])

RECURSIVE ResizeEach(_, _, _)
ResizeEach(s, node, ds) ==
  IF ds = <<>> THEN s
  ELSE ResizeEach(ResizeInternal(s, node, <<Head(ds)[2], Head(ds)[3]>>, Head(ds)[1]), node, Tail(ds))

\* a set_frame_from_resize that resizes without the check pass
SetFrameFromResizeUnchecked(s, node, old, new, screen) ==
  ResizeEach(s, node, NonZeroDeltas(old, new, screen))

\* set_frame_from_resize
SetFrameFromResize(s, node, old, new, screen) ==
  IF ~ResizeIsGood(old, new, screen) THEN s
  ELSE ResizeEach(s, node, NonZeroDeltas(old, new, screen))

\* on_window_resized
OnWindowResizedOp(s, l, w, old, new, screen) ==
  LET node == NodeFor(s, l, w)
      tiling == ComputeTilingArea(screen)
      s0 == Touch(s, node, "on_window_resized: removed node")
  IN IF node = NoNode THEN s
     ELSE IF ~Ok(s0) THEN s0
     ELSE IF new = screen THEN SetFullscreen(s, node, TRUE)
     ELSE IF old = screen THEN SetFullscreen(s, node, FALSE)
     ELSE IF new = tiling THEN SetFullscreenWithinGaps(s, node, TRUE)
     ELSE IF old = tiling THEN SetFullscreenWithinGaps(s, node, FALSE)
     ELSE SetFrameFromResize(s, node, old, new, screen)

\* --------------------------------------------------------- windows of an app
\* WindowId orders by pid, then idx
WLess(a, b) == a[1] < b[1] \/ (a[1] = b[1] /\ a[2] < b[2])

PairLess(a, b) == WLess(a[1], b[1]) \/ (a[1] = b[1] /\ a[2] < b[2])

RECURSIVE SortPairs(_)
SortPairs(S) ==
  IF S = {} THEN <<>>
  ELSE LET m == CHOOSE x \in S : \A y \in S \ {x} : PairLess(x, y)
       IN <<m>> \o SortPairs(S \ {m})

\* take_nodes_for_app: the entries of every window of the pid, in key order
RECURSIVE NodesOfWindows(_, _)
NodesOfWindows(s, ws) ==
  IF ws = <<>> THEN <<>>
  ELSE [i \in 1..Len(s.wn[Head(ws)]) |-> s.wn[Head(ws)][i][2]] \o NodesOfWindows(s, Tail(ws))

WindowsOfPid(pid) ==
  LET ps == SortPairs({<<w, 0>> : w \in {v \in Windows : v[1] = pid}})
  IN [i \in 1..Len(ps) |-> ps[i][1]]

\* remove_windows_for_app
RemoveWindowsForAppOp(s, pid) ==
  LET ns == NodesOfWindows(s, WindowsOfPid(pid))
      s1 == [s EXCEPT !.wn = [w \in Windows |-> IF w[1] = pid THEN <<>> ELSE @[w]]]
  IN RemoveNodes(s1, ns)

\* the (window, node) pairs of the pid under the layout's root, sorted
CurrentOfApp(s, l, pid) ==
  SortPairs({<<s.win[n], n>> : n \in {m \in Subtree(s, Root(s, l)) : s.win[m] # NoWin /\ s.win[m][1] = pid}})

\* a merge loop that removes every extra node, fullscreen or not
RECURSIVE SetWindowsLoopStrict(_, _, _, _)
SetWindowsLoopStrict(s, l, des, cur) ==
  IF ~Ok(s) THEN s
  ELSE IF des # <<>> /\ cur # <<>> /\ Head(des) = Head(cur)[1]
       THEN SetWindowsLoopStrict(s, l, Tail(des), Tail(cur))
  ELSE IF des # <<>> /\ (cur = <<>> \/ WLess(Head(des), Head(cur)[1]))
       THEN SetWindowsLoopStrict(AddWindowAfterSelectionOp(s, l, Head(des)), l, Tail(des), cur)
  ELSE IF cur # <<>>
       THEN SetWindowsLoopStrict(DetachRemove(s, Head(cur)[2]), l, des, Tail(cur))
  ELSE s

\* the merge loop of set_windows_for_app
RECURSIVE SetWindowsLoop(_, _, _, _)
SetWindowsLoop(s, l, des, cur) ==
  IF ~Ok(s) THEN s
  ELSE IF des # <<>> /\ cur # <<>> /\ Head(des) = Head(cur)[1]
       THEN SetWindowsLoop(s, l, Tail(des), Tail(cur))
  ELSE IF des # <<>> /\ (cur = <<>> \/ WLess(Head(des), Head(cur)[1]))
       THEN SetWindowsLoop(AddWindowAfterSelectionOp(s, l, Head(des)), l, Tail(des), cur)
  ELSE IF cur # <<>>
       THEN LET node == Head(cur)[2]
                s0 == Touch(s, node, "set_windows_for_app: removed node")
            IN IF ~Ok(s0) THEN s0
               ELSE IF s.info[node].fs THEN SetWindowsLoop(s, l, des, Tail(cur))
               ELSE SetWindowsLoop(DetachRemove(s, node), l, des, Tail(cur))
  ELSE s

\* set_windows_for_app; desired arrives sorted here, as the code sorts it
SetWindowsForAppOp(s, l, pid, desired) ==
  SetWindowsLoop(s, l, desired, CurrentOfApp(s, l, pid))

\* has_windows_for_app
HasWindowsForApp(s, l, pid) ==
  \E n \in Subtree(s, Root(s, l)) : s.win[n] # NoWin /\ s.win[n][1] = pid

\* contains_window
ContainsWindow(s, l, w) == NodeFor(s, l, w) # NoNode

\* selected_window
SelectedWindow(s, l) == s.win[Selection(s, l)]

\* ------------------------------------------------------- layouts as a whole
\* the n smallest handles nothing refers to
RECURSIVE FreshSeq(_, _)
FreshSeq(free, n) ==
  IF n = 0 THEN <<>> ELSE <<MinOf(free)>> \o FreshSeq(free \ {MinOf(free)}, n - 1)

\* a clone whose copies carry fresh layout data instead of the source's
LayoutCopiedAsDefault(s, src) == DefaultInfo

\* Layout::handle_event(Copied): the copy takes the source's LayoutInfo
LayoutCopied(s, src) == s.info[src]

\* Selection::handle_event(Copied): to is the copy of each source node
SelectionCopied(s, src, to) ==
  IF s.sel[src].has THEN SelInfo(to[s.sel[src].child], s.sel[src].stop) ELSE NoSel

\* clone_layout: deep_copy of the source tree, then Copied for every pair of
\* the two preorder walks
CloneLayoutOp(s, l) ==
  LET src == Preorder(s, Root(s, l))
      free == Nodes \ Referenced(s)
      l2 == FreshLayout(s)
      dst == FreshSeq(free, Len(src))
      to == [n \in SeqSet(src) \cup {NoNode} |->
               IF n = NoNode THEN NoNode ELSE dst[IndexOf(src, n)]]
      D == SeqSet(dst)
      from(m) == src[IndexOf(dst, m)]
      badSel == \E n \in SeqSet(src) : s.sel[n].has /\ IndexOf(s.kids[n], s.sel[n].child) = 0
      bound(w) == SelectSeq(src, LAMBDA n : s.win[n] = w)
  IN IF l2 = 0 \/ Cardinality(free) < Len(src) THEN Trap(s, "oom")
     ELSE IF badSel
          THEN Trap(s, "Dest tree had different structure, or source node had nonexistent selection")
     ELSE [s EXCEPT
             !.alive = @ \cup D,
             !.par = [m \in Nodes |-> IF m \in D THEN to[s.par[from(m)]] ELSE @[m]],
             !.kids = [m \in Nodes |->
                         IF m \in D THEN [i \in 1..Len(s.kids[from(m)]) |-> to[s.kids[from(m)][i]]]
                         ELSE @[m]],
             !.sel = [m \in Nodes |->
                        IF m \in D THEN SelectionCopied(s, from(m), to) ELSE @[m]],
             !.info = [m \in Nodes |-> IF m \in D THEN LayoutCopied(s, from(m)) ELSE @[m]],
             !.win = [m \in Nodes |-> IF m \in D THEN s.win[from(m)] ELSE @[m]],
             !.wn = [w \in Windows |->
                       @[w] \o [i \in 1..Len(bound(w)) |-> <<l2, to[bound(w)[i]]>>]],
             !.roots[l2] = dst[1]]

\* remove_layout
RemoveLayoutOp(s, l) ==
  [DeleteRecursive(s, Root(s, l)) EXCEPT !.roots[l] = NoNode]

\* ---------------------------------------------------------- calculate_layout
MinStackSize == 100

FocusSizeIncrease == 10

FocusOffsetDecrease == 5

\* the test at the head of layout_axis: a child below min_size (0.05) or a
\* sum of sizes more than 0.01 off the number of children
NeedsNormalization(s, n) ==
  LET children == s.kids[n]
      actual == SumSeq([i \in 1..Len(children) |-> s.info[children[i]].size])
      off == actual - Len(children) * One
  IN \/ \E i \in 1..Len(children) : 20 * s.info[children[i]].size < SizeScale
     \/ 100 * (IF off >= 0 THEN off ELSE -off) > SizeScale

\* the nodes apply_with_gaps hands to layout_axis
AxisVisited(s, l) ==
  {n \in Subtree(s, Root(s, l)) :
     /\ s.kids[n] # <<>>
     /\ Kind(s, n) \in {"Horizontal", "Vertical"}
     /\ \A a \in SeqSet(Ancestors(s, n)) : s.win[a] = NoWin}

\* the sizes layout_axis writes back while it computes the frames
Normalize(s, l) ==
  LET N == {n \in AxisVisited(s, l) : NeedsNormalization(s, n)}
  IN [s EXCEPT !.info = [m \in Nodes |->
        IF m \in N THEN [@[m] EXCEPT !.total = Len(s.kids[m]) * One,
                                     !.size = IF s.par[m] \in N THEN One ELSE @]
        ELSE IF s.par[m] \in N THEN [@[m] EXCEPT !.size = One]
        ELSE @[m]]]

\* Layout::is_focused_in_subtree
RECURSIVE IsFocusedInSubtree(_, _)
IsFocusedInSubtree(s, n) ==
  IF s.win[n] # NoWin /\ s.par[n] # NoNode THEN FirstChild(s, s.par[n]) = n
  ELSE \E i \in 1..Len(s.kids[n]) : IsFocusedInSubtree(s, s.kids[n][i])

\* StackLayoutResult::new: the size every window of the stack gets
StackWindowSize(rect, count, horizontal) ==
  LET space == IF count > 0 THEN (count - 1) * Env.stack_offset ELSE 0
  IN IF horizontal THEN [w |-> Max2(rect.w - space, MinStackSize), h |-> Max2(rect.h, MinStackSize)]
     ELSE [w |-> Max2(rect.w, MinStackSize), h |-> Max2(rect.h - space, MinStackSize)]

\* StackLayoutResult::get_frame_for_index (index from 0)
GetFrameForIndex(rect, size, horizontal, index) ==
  [x |-> rect.x + (IF horizontal THEN index * Env.stack_offset ELSE 0),
   y |-> rect.y + (IF horizontal THEN 0 ELSE index * Env.stack_offset),
   w |-> size.w, h |-> size.h]

Clamp(v, lo, hi) == IF v < lo THEN lo ELSE IF v > hi THEN hi ELSE v

\* StackLayoutResult::get_focused_frame_for_index
GetFocusedFrameForIndex(rect, size, horizontal, index) ==
  LET along == IF index = 0 THEN 0 ELSE index * Env.stack_offset - FocusOffsetDecrease
      ox == IF horizontal THEN rect.x + along ELSE rect.x - FocusOffsetDecrease
      oy == IF horizontal THEN rect.y - FocusOffsetDecrease ELSE rect.y + along
      width == Min2(size.w + FocusSizeIncrease, rect.w)
      height == Min2(size.h + FocusSizeIncrease, rect.h)
  IN [x |-> Clamp(ox, rect.x, Max2(rect.x + rect.w - width, rect.x)),
      y |-> Clamp(oy, rect.y, Max2(rect.y + rect.h - height, rect.y)),
      w |-> width, h |-> height]

FocusedIdx(s, children) ==
  LET hits == {i \in 1..Len(children) : IsFocusedInSubtree(s, children[i])}
  IN IF hits = {} THEN 1 ELSE MinOf(hits)

\* Layout::apply_with_gaps and Layout::layout_axis on normalised sizes: the
\* (window, frame) pairs pushed, in order.  Lengths are whole points.
RECURSIVE ApplyWithGaps(_, _, _)
RECURSIVE StackSeq(_, _, _, _)
RECURSIVE LayoutAxis(_, _, _, _, _)
ApplyWithGaps(s, n, rect0) ==
  LET rect == IF s.info[n].fs THEN Screen
              ELSE IF s.info[n].fsg THEN ComputeTilingArea(Screen)
              ELSE rect0
      horizontal == Kind(s, n) \in {"Horizontal", "HorizontalStack"}
  IN IF s.win[n] # NoWin THEN << <<s.win[n], rect>> >>
     ELSE IF s.kids[n] = <<>> THEN <<>>
     ELSE IF IsStacked(Kind(s, n)) THEN StackSeq(s, n, rect, 1)
     ELSE LayoutAxis(s, n, rect, 1, IF horizontal THEN rect.x ELSE rect.y)
StackSeq(s, n, rect, i) ==
  LET children == s.kids[n]
      horizontal == Kind(s, n) = "HorizontalStack"
      size == StackWindowSize(rect, Len(children), horizontal)
      frame == IF i = FocusedIdx(s, children)
               THEN GetFocusedFrameForIndex(rect, size, horizontal, i - 1)
               ELSE GetFrameForIndex(rect, size, horizontal, i - 1)
  IN IF i > Len(children) THEN <<>>
     ELSE ApplyWithGaps(s, children[i], frame) \o StackSeq(s, n, rect, i + 1)
LayoutAxis(s, n, rect, i, offset) ==
  LET children == s.kids[n]
      horizontal == Kind(s, n) = "Horizontal"
      total == s.info[n].total
      axisLen == IF horizontal THEN rect.w ELSE rect.h
      totalGap == (Len(children) - 1) * Env.inner_gap
      usable == IF Env.inner_gap = 0 THEN axisLen ELSE Max2(axisLen - totalGap, 0)
      segLen == IF total > 0 THEN (usable * s.info[children[i]].size) \div total ELSE 0
      childRect == IF horizontal THEN [x |-> offset, y |-> rect.y, w |-> segLen, h |-> rect.h]
                   ELSE [x |-> rect.x, y |-> offset, w |-> rect.w, h |-> segLen]
      next == offset + segLen + (IF i < Len(children) THEN Env.inner_gap ELSE 0)
  IN IF i > Len(children) THEN <<>>
     ELSE ApplyWithGaps(s, children[i], childRect) \o LayoutAxis(s, n, rect, i + 1, next)

\* calculate_layout: what it returns ...
CalculateLayout(s, l) ==
  ApplyWithGaps(Normalize(s, l), Root(s, l), ComputeTilingArea(Screen))

\* ... and the state it leaves
CalculateLayoutOp(s, l) == Normalize(s, l)

\* --------------------------------------------------------------- draw_tree
\* get_ascii_tree: whether node lies on the sibling walk from range_start
\* to range_end
InRange(s, node) ==
  /\ HasRange(s, node)
  /\ \E i \in 1..Len(RangeWalk(s, RangeStart(s, node), RangeEnd(s, node))) :
       RangeWalk(s, RangeStart(s, node), RangeEnd(s, node))[i] = node

\* get_ascii_tree: the status prefix of a node ("selected" is the crossed
\* box, "unselected" the empty box, "single"/"middle" the diamond, "start"
\* and "end" the range brackets, "" the root)
Status(s, node) ==
  IF s.par[node] # NoNode /\ LocalSelection(s, s.par[node]) = node THEN "selected"
  ELSE IF InRange(s, node)
       THEN IF node = RangeStart(s, node) /\ node = RangeEnd(s, node) THEN "single"
            ELSE IF node = RangeStart(s, node) THEN "start"
            ELSE IF node = RangeEnd(s, node) THEN "end"
            ELSE "middle"
  ELSE IF s.par[node] = NoNode THEN ""
  ELSE "unselected"

\* Layout::debug: kind, size and total of a container, size of a window node
Debug(s, node, isContainer) ==
  IF isContainer THEN <<s.info[node].kind, s.info[node].size, s.info[node].total>>
  ELSE <<s.info[node].size>>

\* get_ascii_tree, without the text of the node's own handle
RECURSIVE GetAsciiTree(_, _)
GetAsciiTree(s, node) ==
  [status |-> Status(s, node),
   wid |-> s.win[node],
   desc |-> Debug(s, node, s.win[node] = NoWin),
   children |-> [i \in 1..Len(s.kids[node]) |-> GetAsciiTree(s, s.kids[node][i])]]

\* draw_tree
DrawTree(s, l) == GetAsciiTree(s, Root(s, l))


\* ------------------------------------------------------------- actions
\* TraditionalLayoutSystem::default()
Empty ==
  [alive |-> {}, par |-> [n \in Nodes |-> NoNode], kids |-> [n \in Nodes |-> <<>>],
   sel |-> [n \in Nodes |-> NoSel], info |-> [n \in Nodes |-> DefaultInfo],
   win |-> [n \in Nodes |-> NoWin], wn |-> [w \in Windows |-> <<>>],
   roots |-> [l \in Layouts |-> NoNode], trap |-> ""]

\* one layout with two windows side by side: root[w1, w2]
TwoWindows ==
  AddWindowAfterSelectionOp(AddWindowAfterSelectionOp(CreateLayoutOp(Empty), 1, <<1, 1>>), 1, <<1, 2>>)

\* the second window split off and a third added next to it: root[w1, C[w2, w3]]
Nested ==
  AddWindowAfterSelectionOp(SplitSelectionOp(TwoWindows, 1, "Vertical"), 1, <<2, 1>>)

\* one window grouped, and the group grouped again: root[G2[G1[w]]]
Chained ==
  GroupSelectionOp(
    DescendSelectionOp(
      GroupSelectionOp(AddWindowAfterSelectionOp(CreateLayoutOp(Empty), 1, <<2, 1>>),
                       1, FALSE, "Perpendicular"),
      1),
    1, FALSE, "Perpendicular")

\* Runs start from the empty system or from one of three systems that a few
\* operations build out of it.
Seeds == {Empty, TwoWindows, Nested, Chained}

Init ==
  \E s0 \in Seeds :
    /\ alive = s0.alive /\ par = s0.par /\ kids = s0.kids /\ sel = s0.sel
    /\ info = s0.info /\ win = s0.win /\ wn = s0.wn /\ roots = s0.roots
    /\ trap = ""
    /\ steps = 0

\* The result t of an operation becomes the next state; a panic leaves only
\* its message.  An operation that needs more nodes than the model has is
\* not taken.
Commit(t) ==
  /\ trap = ""
  /\ steps < MaxSteps
  /\ t.trap # "oom"
  /\ steps' = steps + 1
  /\ IF t.trap = ""
     THEN /\ alive' = t.alive /\ par' = t.par /\ kids' = t.kids /\ sel' = t.sel
          /\ info' = t.info /\ win' = t.win /\ wn' = t.wn /\ roots' = t.roots
          /\ trap' = ""
     ELSE /\ trap' = t.trap
          /\ UNCHANGED <<alive, par, kids, sel, info, win, wn, roots>>

Live == {l \in Layouts : LayoutExists(St, l)}

ResizeAmounts == {<<1, 4>>, <<-1, 4>>}

\* the desired lists set_windows_for_app is called with, sorted
DesiredLists(pid) ==
  LET ws == {w \in Windows : w[1] = pid}
  IN {<<>>} \cup {<<w>> : w \in ws}
     \cup {<<p[1], p[2]>> : p \in {q \in ws \X ws : q[1] = q[2] \/ WLess(q[1], q[2])}}

CreateLayout == Commit(CreateLayoutOp(St))

CloneLayout == \E l \in Live : Commit(CloneLayoutOp(St, l))

RemoveLayout == \E l \in Live : Commit(RemoveLayoutOp(St, l))

CalculateLayoutStep == \E l \in Live : Commit(CalculateLayoutOp(St, l))

AscendSelection == \E l \in Live : Commit(AscendSelectionOp(St, l))

DescendSelection == \E l \in Live : Commit(DescendSelectionOp(St, l))

MoveFocus == \E l \in Live, d \in Directions : Commit(MoveFocusOp(St, l, d))

MoveFocusLevelRestricted ==
  \E l \in Live, d \in Directions : Commit(MoveFocusLevelRestrictedOp(St, l, d))

NextSiblingWindow == \E l \in Live : Commit(NextSiblingWindowOp(St, l))

PrevSiblingWindow == \E l \in Live : Commit(PrevSiblingWindowOp(St, l))

AddWindowAfterSelection ==
  \E l \in Live, w \in Windows : Commit(AddWindowAfterSelectionOp(St, l, w))

RemoveWindow == \E w \in Windows : Commit(RemoveWindowOp(St, w))

RemoveWindowsForApp == \E pid \in Pids : Commit(RemoveWindowsForAppOp(St, pid))

SetWindowsForApp ==
  \E l \in Live, pid \in Pids : \E desired \in DesiredLists(pid) :
    Commit(SetWindowsForAppOp(St, l, pid, desired))

SelectWindow == \E l \in Live, w \in Windows : Commit(SelectWindowOp(St, l, w))

OnWindowResized ==
  \E l \in Live, w \in Windows, c \in ResizeCases :
    Commit(OnWindowResizedOp(St, l, w, c[1], c[2], Screen))

MoveSelection == \E l \in Live, d \in Directions : Commit(MoveSelectionOp(St, l, d))

MoveSelectionLevelRestricted ==
  \E l \in Live, d \in Directions : Commit(MoveSelectionLevelRestrictedOp(St, l, d))

\* between two different layouts
MoveSelectionToLayoutAfterSelection ==
  \E from \in Live, to \in Live :
    from # to /\ Commit(MoveSelectionToLayoutAfterSelectionOp(St, from, to))

SplitSelection == \E l \in Live, k \in Kinds : Commit(SplitSelectionOp(St, l, k))

ToggleFullscreenOfSelection == \E l \in Live : Commit(ToggleFullscreenOfSelectionOp(St, l))

ToggleFullscreenWithinGapsOfSelection ==
  \E l \in Live : Commit(ToggleFullscreenWithinGapsOfSelectionOp(St, l))

JoinSelectionWithDirection ==
  \E l \in Live, d \in Directions : Commit(JoinSelectionWithDirectionOp(St, l, d))

JoinSelectionWithDirectionLevelRestricted ==
  \E l \in Live, d \in Directions : Commit(JoinSelectionWithDirectionLevelRestrictedOp(St, l, d))

ApplyStackingToParentOfSelection ==
  \E l \in Live, o \in StackOrients : Commit(ApplyStackingToParentOfSelectionOp(St, l, o))

UnstackParentOfSelection ==
  \E l \in Live, o \in StackOrients : Commit(UnstackParentOfSelectionOp(St, l, o))

UnjoinSelection == \E l \in Live : Commit(UnjoinSelectionOp(St, l))

UngroupSelection == \E l \in Live : Commit(UngroupSelectionOp(St, l))

MoveSelectionToSiblingNext == \E l \in Live : Commit(MoveSelectionToSiblingNextOp(St, l))

MoveSelectionToSiblingPrev == \E l \in Live : Commit(MoveSelectionToSiblingPrevOp(St, l))

GroupSelection ==
  \E l \in Live :
    \/ Commit(GroupSelectionOp(St, l, FALSE, "Perpendicular"))
    \/ \E o \in StackOrients : Commit(GroupSelectionOp(St, l, TRUE, o))

IncreaseSelectionLeft == \E l \in Live : Commit(IncreaseSelectionLeftOp(St, l))

IncreaseSelectionRight == \E l \in Live : Commit(IncreaseSelectionRightOp(St, l))

DecreaseSelectionLeft == \E l \in Live : Commit(DecreaseSelectionLeftOp(St, l))

DecreaseSelectionRight == \E l \in Live : Commit(DecreaseSelectionRightOp(St, l))

UngroupSiblings == \E l \in Live : Commit(UngroupSiblingsOp(St, l))

ResizeSelectionBy == \E l \in Live, r \in ResizeAmounts : Commit(ResizeSelectionByOp(St, l, r))

Rebalance == \E l \in Live : Commit(RebalanceOp(St, l))

SwapWindows == \E l \in Live, a \in Windows, b \in Windows : Commit(SwapWindowsOp(St, l, a, b))

ToggleTileOrientation == \E l \in Live : Commit(ToggleTileOrientationOp(St, l))

Next ==
  \/ CreateLayout
  \/ CloneLayout
  \/ RemoveLayout
  \/ CalculateLayoutStep
  \/ AscendSelection
  \/ DescendSelection
  \/ MoveFocus
  \/ MoveFocusLevelRestricted
  \/ NextSiblingWindow
  \/ PrevSiblingWindow
  \/ AddWindowAfterSelection
  \/ RemoveWindow
  \/ RemoveWindowsForApp
  \/ SetWindowsForApp
  \/ SelectWindow
  \/ OnWindowResized
  \/ MoveSelection
  \/ MoveSelectionLevelRestricted
  \/ MoveSelectionToLayoutAfterSelection
  \/ SplitSelection
  \/ ToggleFullscreenOfSelection
  \/ ToggleFullscreenWithinGapsOfSelection
  \/ JoinSelectionWithDirection
  \/ JoinSelectionWithDirectionLevelRestricted
  \/ ApplyStackingToParentOfSelection
  \/ UnstackParentOfSelection
  \/ UnjoinSelection
  \/ UngroupSelection
  \/ MoveSelectionToSiblingNext
  \/ MoveSelectionToSiblingPrev
  \/ GroupSelection
  \/ IncreaseSelectionLeft
  \/ IncreaseSelectionRight
  \/ DecreaseSelectionLeft
  \/ DecreaseSelectionRight
  \/ UngroupSiblings
  \/ ResizeSelectionBy
  \/ Rebalance
  \/ SwapWindows
  \/ ToggleTileOrientation

Spec == Init /\ [][Next]_vars

\* ------------------------------------------------------------------ claims
\* the nodes of layout l: its root and everything under it
NodesOf(s, l) == IF s.roots[l] = NoNode THEN {} ELSE Subtree(s, s.roots[l])

ChildSizes(s, p) == [i \in 1..Len(s.kids[p]) |-> s.info[s.kids[p][i]].size]

Abs(x) == IF x < 0 THEN -x ELSE x

\* two sizes, in units of 1/SizeScale, differ by at most 0.01
Within001(a, b) == Abs(a - b) * 100 <= SizeScale

\* C1: every node that is bound to a window-id has no children.
C1_BoundNodesAreLeaves ==
  \A n \in alive : win[n] # NoWin => kids[n] = <<>>

\* operations have put a window two containers below its layout's root
C1_Witness ==
  /\ steps > 0
  /\ \E n \in alive :
       /\ win[n] # NoWin
       /\ par[n] # NoNode /\ win[par[n]] = NoWin
       /\ par[par[n]] # NoNode
       /\ par[par[par[n]]] # NoNode

\* C2: for every node P with a SelectionInfo entry, the recorded
\* selected_child is a current child of P.
C2_SelectedChildIsChild ==
  \A p \in Nodes :
    sel[p].has => sel[p].child \in alive /\ par[sel[p].child] = p

\* remove_window takes away the selected child of P, and P's selected_child
\* is then another of its children
C2_Witness ==
  /\ steps < MaxSteps
  /\ \E w \in Windows, p \in alive :
       /\ sel[p].has
       /\ win[sel[p].child] = w
       /\ Ok(RemoveWindowOp(St, w))
       /\ p \in RemoveWindowOp(St, w).alive
       /\ RemoveWindowOp(St, w).sel[p].has
       /\ RemoveWindowOp(St, w).sel[p].child # sel[p].child
       /\ RemoveWindowOp(St, w).par[RemoveWindowOp(St, w).sel[p].child] = p

\* C3: for every container P, total(P) equals the sum of the sizes of P's
\* current children within 0.01.
C3_TotalIsSumOfSizes ==
  \A p \in alive :
    kids[p] # <<>> => Within001(info[p].total, SumSeq(ChildSizes(St, p)))

\* C4: no two distinct nodes of one layout are bound to the same window-id.
C4_NoDuplicateWindow ==
  \A l \in Layouts : \A n1, n2 \in NodesOf(St, l) :
    n1 # n2 /\ win[n1] # NoWin => win[n1] # win[n2]

\* C5: no node has both is_fullscreen and is_fullscreen_within_gaps set.
C5_FullscreenFlagsExclusive ==
  \A n \in alive : ~(info[n].fs /\ info[n].fsg)

\* the selection is fullscreen within gaps, and toggle_fullscreen_of_selection
\* makes it fullscreen only
C5_Witness ==
  /\ steps < MaxSteps
  /\ \E l \in Live :
       /\ info[Selection(St, l)].fsg
       /\ ToggleFullscreenOfSelectionOp(St, l).info[Selection(St, l)].fs
       /\ ~ToggleFullscreenOfSelectionOp(St, l).info[Selection(St, l)].fsg

\* C6: whenever SelectionInfo[P] holds a range, range_start and range_end
\* are both present and both are current children of P.
C6_RangeEndsAreChildren ==
  \A p \in Nodes :
    sel[p].has /\ (sel[p].rs # NoNode \/ sel[p].re # NoNode)
      => /\ sel[p].rs \in alive /\ par[sel[p].rs] = p
         /\ sel[p].re \in alive /\ par[sel[p].re] = p

\* C7: every public operation called on a valid layout completes without
\* trapping.
C7_NoOperationTraps == trap = ""

\* every layout handle names one live parentless root of its own
RootsWellFormed(s) ==
  \A l \in Layouts :
    s.roots[l] # NoNode =>
      /\ s.roots[l] \in s.alive
      /\ s.par[s.roots[l]] = NoNode
      /\ \A l2 \in Layouts \ {l} : s.roots[l2] # s.roots[l]

\* the emptied containers: linked nodes with neither a window nor a child
Emptied(s) ==
  {n \in s.alive : s.par[n] # NoNode /\ s.win[n] = NoWin /\ s.kids[n] = <<>>}

\* what remove_window, remove_windows_for_app and set_windows_for_app can
\* make of s
RemovalResults(s) ==
  {RemoveWindowOp(s, w) : w \in Windows}
  \cup {RemoveWindowsForAppOp(s, pid) : pid \in Pids}
  \cup UNION {UNION {{SetWindowsForAppOp(s, l, pid, des) : des \in DesiredLists(pid)}
                     : pid \in Pids}
              : l \in {k \in Layouts : LayoutExists(s, k)}}

\* C8: the three operations that remove windows leave no emptied container
\* behind, and every layout handle keeps naming the same parentless root,
\* which is never removed.
C8_ChainCollapseKeepsRoots ==
  /\ RootsWellFormed(St)
  /\ \A t \in RemovalResults(St) :
       Ok(t) => /\ t.roots = roots
                /\ RootsWellFormed(t)
                /\ Emptied(t) \subseteq Emptied(St)

\* a window is the only one under a container that is the only child of
\* another container, and remove_window takes both containers with it
C8_Witness ==
  /\ steps < MaxSteps
  /\ \E n \in alive :
       /\ win[n] # NoWin
       /\ Len(wn[win[n]]) = 1
       /\ par[n] # NoNode /\ kids[par[n]] = <<n>>
       /\ par[par[n]] # NoNode /\ kids[par[par[n]]] = <<par[n]>>
       /\ par[par[par[n]]] # NoNode
       /\ Ok(RemoveWindowOp(St, win[n]))
       /\ {n, par[n], par[par[n]]} \cap RemoveWindowOp(St, win[n]).alive = {}
       /\ par[par[par[n]]] \in RemoveWindowOp(St, win[n]).alive
       /\ RemoveWindowOp(St, win[n]).roots = roots

\* the window-ids calculate_layout returns for l, in order
WindowsLaidOut(s, l) ==
  [i \in 1..Len(CalculateLayout(s, l)) |-> CalculateLayout(s, l)[i][1]]

Occurrences(seq, x) == Cardinality({i \in 1..Len(seq) : seq[i] = x})

BoundIn(s, l) == {s.win[n] : n \in NodesOf(s, l)} \ {NoWin}

\* C9: the list calculate_layout returns for a layout holds each window-id
\* bound in the layout exactly once and no other window-id.
C9_EachBoundWindowOnce ==
  \A l \in Live : \A w \in Windows :
    Occurrences(WindowsLaidOut(St, l), w) = IF w \in BoundIn(St, l) THEN 1 ELSE 0

\* C10: the clone of a layout has the calculate_layout output and the
\* selected_window of the layout it was cloned from.
C10_CloneLooksTheSame ==
  \A l \in Live :
    Ok(CloneLayoutOp(St, l)) =>
      /\ CalculateLayout(CloneLayoutOp(St, l), FreshLayout(St)) = CalculateLayout(St, l)
      /\ SelectedWindow(CloneLayoutOp(St, l), FreshLayout(St)) = SelectedWindow(St, l)

\* a layout of three windows in nested containers, one of them resized, is
\* cloned
C10_Witness ==
  /\ steps < MaxSteps
  /\ \E l \in Live :
       /\ Ok(CloneLayoutOp(St, l))
       /\ Len(CalculateLayout(St, l)) >= 3
       /\ SelectedWindow(St, l) # NoWin
       /\ \E n \in NodesOf(St, l) : par[n] # NoNode /\ par[par[n]] # NoNode
       /\ \E n \in NodesOf(St, l) : par[n] # NoNode /\ info[n].size # One
       /\ CalculateLayout(CloneLayoutOp(St, l), FreshLayout(St)) = CalculateLayout(St, l)

\* C11: the clone of a layout draws the same tree as the layout it was cloned
\* from, node handles aside: same shape, kinds, sizes, window-ids and status
\* prefixes, whatever the selection state (plain, pinned container, range).
C11_CloneDrawsTheSame ==
  \A l \in Live :
    Ok(CloneLayoutOp(St, l)) =>
      DrawTree(CloneLayoutOp(St, l), FreshLayout(St)) = DrawTree(St, l)

\* the listed operations addressed to layout l, each with every input of the
\* model, applied to s
AddressedResults(s, l) ==
  {AddWindowAfterSelectionOp(s, l, w) : w \in Windows}
  \cup {SelectWindowOp(s, l, w) : w \in Windows}
  \cup {SplitSelectionOp(s, l, k) : k \in Kinds}
  \cup {GroupSelectionOp(s, l, FALSE, "Perpendicular")}
  \cup {GroupSelectionOp(s, l, TRUE, o) : o \in StackOrients}
  \cup {JoinSelectionWithDirectionOp(s, l, d) : d \in Directions}
  \cup {JoinSelectionWithDirectionLevelRestrictedOp(s, l, d) : d \in Directions}
  \cup {MoveSelectionOp(s, l, d) : d \in Directions}
  \cup {MoveSelectionLevelRestrictedOp(s, l, d) : d \in Directions}
  \cup {ApplyStackingToParentOfSelectionOp(s, l, o) : o \in StackOrients}
  \cup {UnstackParentOfSelectionOp(s, l, o) : o \in StackOrients}
  \cup {ResizeSelectionByOp(s, l, r) : r \in ResizeAmounts}
  \cup {ToggleFullscreenOfSelectionOp(s, l), ToggleFullscreenWithinGapsOfSelectionOp(s, l)}
  \cup {SwapWindowsOp(s, l, a, b) : a \in Windows, b \in Windows}
  \cup UNION {{SetWindowsForAppOp(s, l, pid, des) : des \in DesiredLists(pid)} : pid \in Pids}

\* layout l has in t the nodes it has in s, each with the same parent,
\* children, selection entry, layout data and window
SameLayout(s, t, l) ==
  /\ t.roots[l] = s.roots[l]
  /\ NodesOf(t, l) = NodesOf(s, l)
  /\ \A n \in NodesOf(s, l) :
       /\ t.par[n] = s.par[n] /\ t.kids[n] = s.kids[n] /\ t.sel[n] = s.sel[n]
       /\ t.info[n] = s.info[n] /\ t.win[n] = s.win[n]

\* C12: an operation addressed to one layout by its LayoutId leaves every
\* other layout (its clone, or the layout it was cloned from) as it was:
\* same tree, kinds, sizes, selection and bound windows.
C12_OtherLayoutUntouched ==
  \A l \in Live : \A l2 \in Live \ {l} :
    \A t \in AddressedResults(St, l) : Ok(t) => SameLayout(St, t, l2)

\* C13, first part: select(N) makes N, leaf or container, the effective
\* selection that current_selection computes from the root of N's layout.
C13_SelectMakesEffective ==
  trap = "" =>
    \A l \in Live : \A n \in NodesOf(St, l) :
      CurrentSelection(Select(St, n), Root(St, l)) = n

\* C13: select(N) makes N the effective selection of its layout, and
\* whenever select_window(L, w) returns true (node_for finds a node),
\* selected_window(L) is w right afterwards, whatever was pinned before.
C13_SelectWindowSelects ==
  /\ C13_SelectMakesEffective
  /\ \A l \in Live : \A w \in Windows :
       trap = "" /\ NodeFor(St, l, w) # NoNode =>
         SelectedWindow(SelectWindowOp(St, l, w), l) = w

\* t wraps S, a child of P in s, in a new container of P's kind that stands
\* where S stood, and puts the new node after S inside it
WrappedAndAdded(s, t, S, P, new) ==
  /\ t.par[S] \notin s.alive
  /\ t.par[t.par[S]] = P
  /\ t.kids[P] = [i \in 1..Len(s.kids[P]) |->
                    IF s.kids[P][i] = S THEN t.par[S] ELSE s.kids[P][i]]
  /\ t.info[t.par[S]].kind = s.info[P].kind
  /\ t.win[t.par[S]] = NoWin
  /\ t.kids[t.par[S]] = <<S, new>>

\* t puts the new node right after S among P's children
AddedAsNextSibling(s, t, S, P, new) ==
  /\ t.par[new] = P
  /\ t.par[S] = P
  /\ t.kids[P] = SeqInsertAt(s.kids[P], IndexOf(s.kids[P], S) + 1, new)

\* what add_window_after_selection has to have done with selection S
AddedRight(s, t, l, w, S) ==
  /\ Selection(t, l) \notin s.alive
  /\ t.win[Selection(t, l)] = w
  /\ t.kids[Selection(t, l)] = <<>>
  /\ IF Len(s.kids[s.par[S]]) >= 4 /\ ~IsStacked(s.info[s.par[S]].kind)
     THEN WrappedAndAdded(s, t, S, s.par[S], Selection(t, l))
     ELSE AddedAsNextSibling(s, t, S, s.par[S], Selection(t, l))

\* C14: add_window_after_selection with a selection S that has a parent P
\* wraps S in a new container of P's kind and adds the window under it when
\* P has four or more children and is no stack, and otherwise makes the
\* window S's next sibling; the new node is the effective selection.
C14_AddWindowPlacement ==
  \A l \in Live : \A w \in Windows :
    trap = "" /\ par[Selection(St, l)] # NoNode /\ Ok(AddWindowAfterSelectionOp(St, l, w))
      => AddedRight(St, AddWindowAfterSelectionOp(St, l, w), l, w, Selection(St, l))

\* a window is about to be added next to a selection whose parent has four
\* children and is no stack, and the wrapping takes place
C14_Witness ==
  /\ steps < MaxSteps
  /\ trap = ""
  /\ \E l \in Live, w \in Windows :
       /\ par[Selection(St, l)] # NoNode
       /\ Len(kids[par[Selection(St, l)]]) >= 4
       /\ ~IsStacked(info[par[Selection(St, l)]].kind)
       /\ Ok(AddWindowAfterSelectionOp(St, l, w))
       /\ WrappedAndAdded(St, AddWindowAfterSelectionOp(St, l, w), Selection(St, l),
                          par[Selection(St, l)],
                          Selection(AddWindowAfterSelectionOp(St, l, w), l))

\* the window-ids of pid bound to nodes of layout l
BoundOfPid(s, l, pid) ==
  {s.win[n] : n \in {m \in NodesOf(s, l) : s.win[m] # NoWin /\ s.win[m][1] = pid}}

\* those of them bound to a node that is fullscreen
FullscreenOfPid(s, l, pid) ==
  {s.win[n] : n \in {m \in NodesOf(s, l) :
                       s.win[m] # NoWin /\ s.win[m][1] = pid /\ s.info[m].fs}}

\* the nodes of layout l bound to windows of other pids, with their windows
BoundOfOthers(s, l, pid) ==
  {<<n, s.win[n]>> : n \in {m \in NodesOf(s, l) : s.win[m] # NoWin /\ s.win[m][1] # pid}}

\* what set_windows_for_app(l, pid, des) has to have made of s when it
\* completes with t
Reconciled(s, t, l, pid, des) ==
  Ok(t) =>
    /\ BoundOfPid(t, l, pid) = SeqSet(des) \cup FullscreenOfPid(s, l, pid)
    /\ BoundOfOthers(t, l, pid) = BoundOfOthers(s, l, pid)

\* C15: after set_windows_for_app(L, pid, desired) the windows of pid bound
\* in L are the desired ones and those that were bound on a fullscreen node
\* before; windows of other pids bound in L are as they were.
C15_SetWindowsReconciles ==
  \A l \in Live : \A pid \in Pids : \A des \in DesiredLists(pid) :
    trap = "" => Reconciled(St, SetWindowsForAppOp(St, l, pid, des), l, pid, des)

\* a layout holds a fullscreen window and another window of the same pid and
\* is about to be reconciled with an empty list, which removes the one and
\* keeps the other, and with a list that names a window it does not hold
C15_Witness ==
  /\ steps < MaxSteps
  /\ trap = ""
  /\ \E l \in Live, pid \in Pids :
       /\ FullscreenOfPid(St, l, pid) # {}
       /\ FullscreenOfPid(St, l, pid) # BoundOfPid(St, l, pid)
       /\ Ok(SetWindowsForAppOp(St, l, pid, <<>>))
       /\ BoundOfPid(SetWindowsForAppOp(St, l, pid, <<>>), l, pid) = FullscreenOfPid(St, l, pid)
       /\ \E p2 \in Pids : \E des \in DesiredLists(p2) :
            /\ SeqSet(des) \ BoundOfPid(St, l, p2) # {}
            /\ Ok(SetWindowsForAppOp(St, l, p2, des))
            /\ SeqSet(des) \subseteq BoundOfPid(SetWindowsForAppOp(St, l, p2, des), l, p2)

\* the nodes group_selection gathers in s
GroupedNodes(s, l) == GetSelectionRangeNodes(s, Selection(s, l))

\* group_selection gets as far as creating a container
GroupCreates(s, l) ==
  /\ ~RangeWalkStale(s, Selection(s, l))
  /\ s.par[GroupedNodes(s, l)[1]] # NoNode

\* the (auto_stack, stack_orientation) arguments of the model
GroupCases == {<<FALSE, "Perpendicular">>} \cup {<<TRUE, o>> : o \in StackOrients}

\* the node t has and s had not
NewContainer(s, t) == CHOOSE c \in t.alive \ s.alive : TRUE

\* seq with the first of nodes replaced by c and the others taken out
Regrouped(seq, nodes, c) ==
  SelectSeq([i \in 1..Len(seq) |-> IF seq[i] = nodes[1] THEN c ELSE seq[i]],
            LAMBDA y : y \notin SeqSet(nodes))

\* no entry of layout l records a range
NoRangeIn(t, l) == \A n \in NodesOf(t, l) : t.sel[n].rs = NoNode /\ t.sel[n].re = NoNode

\* what group_selection has to have made of s when it completes with t
GroupedRight(s, t, l, nodes, P) ==
  Ok(t) =>
    /\ Cardinality(t.alive \ s.alive) = 1
    /\ t.kids[NewContainer(s, t)] = nodes
    /\ t.info[NewContainer(s, t)].kind = s.info[P].kind
    /\ P \in t.alive
    /\ t.kids[P] = Regrouped(s.kids[P], nodes, NewContainer(s, t))
    /\ NoRangeIn(t, l)

\* C16: group_selection creates exactly one new container, standing where
\* the first grouped node stood under the parent P, of P's kind, with the
\* grouped nodes as its children in their order; the other children of P
\* keep their order, and no range is recorded in the layout afterwards.
C16_GroupMakesOneContainer ==
  \A l \in Live : \A c \in GroupCases :
    trap = "" /\ GroupCreates(St, l) =>
      GroupedRight(St, GroupSelectionOp(St, l, c[1], c[2]), l, GroupedNodes(St, l),
                   par[GroupedNodes(St, l)[1]])

\* the effective selection of l in t is the container t has created
SelectsNewContainer(s, t, l) == Ok(t) => Selection(t, l) = NewContainer(s, t)

\* C17: after group_selection has created a container, that container is
\* the effective selection of the layout.
C17_GroupSelectsContainer ==
  \A l \in Live : \A c \in GroupCases :
    trap = "" /\ GroupCreates(St, l) =>
      SelectsNewContainer(St, GroupSelectionOp(St, l, c[1], c[2]), l)

\* the nesting of container kinds over the windows below node, sizes and
\* selection left out
RECURSIVE KindTree(_, _)
KindTree(s, node) ==
  [wid |-> s.win[node],
   kind |-> IF s.win[node] = NoWin THEN s.info[node].kind ELSE "",
   children |-> [i \in 1..Len(s.kids[node]) |-> KindTree(s, s.kids[node][i])]]

\* t is a completed state that lays out the windows of s in the same order
\* under the same nesting of container kinds
SameUpToSizes(s, t, l) ==
  /\ Ok(t)
  /\ KindTree(t, Root(t, l)) = KindTree(s, Root(s, l))
  /\ WindowsLaidOut(t, l) = WindowsLaidOut(s, l)

\* C18: split_selection(k) followed by ungroup_siblings completes and gives
\* back the layout as it was before the split, sizes aside: the same windows
\* in the same order under the same nesting of container kinds.
C18_SplitThenUngroupRestores ==
  \A l \in Live : \A k \in Kinds :
    trap = "" /\ SplitSelectionOp(St, l, k).trap # "oom" =>
      SameUpToSizes(St, UngroupSiblingsOp(SplitSelectionOp(St, l, k), l), l)

\* the container apply_stacking_to_parent_of_selection acts on: the selection
\* when it is a container, else its parent
StackingTarget(s, l) ==
  IF s.win[Selection(s, l)] # NoWin THEN s.par[Selection(s, l)] ELSE Selection(s, l)

StackedTwice(s, l) ==
  ApplyStackingToParentOfSelectionOp(
    ApplyStackingToParentOfSelectionOp(s, l, "Perpendicular"), l, "Perpendicular")

UnstackedTarget(s, l) ==
  /\ StackingTarget(s, l) # NoNode
  /\ ~IsStacked(Kind(s, StackingTarget(s, l)))

\* the first child of the container is itself a container, so that the
\* selection the first call leaves is below it and the second call acts there
FirstChildIsContainer(s, c) ==
  FirstChild(s, c) # NoNode /\ s.win[FirstChild(s, c)] = NoWin

PerpendicularStack(k) == IF k = "Horizontal" THEN "VerticalStack" ELSE "HorizontalStack"

SameStack(k) == IF k = "Horizontal" THEN "HorizontalStack" ELSE "VerticalStack"

\* C19 as stated: from a non-stacked target container, applying stacking
\* twice with Perpendicular gives the container its original kind back.
C19_TwiceRestoresKind ==
  \A l \in Live :
    trap = "" /\ UnstackedTarget(St, l) =>
      /\ Ok(StackedTwice(St, l))
      /\ Kind(StackedTwice(St, l), StackingTarget(St, l)) = Kind(St, StackingTarget(St, l))

KindAfterTwice(s, c) ==
  IF FirstChildIsContainer(s, c) THEN PerpendicularStack(Kind(s, c)) ELSE SameStack(Kind(s, c))

\* C19 amended: from a non-stacked target container, applying stacking twice
\* with Perpendicular leaves the container stacked: the second call flips the
\* perpendicular stack of the first (Horizontal -> VerticalStack ->
\* HorizontalStack, Vertical -> HorizontalStack -> VerticalStack), unless the
\* container's first child is a container, in which case the second call acts
\* below that child and the container keeps the perpendicular stack.
C19_TwiceLeavesStacked ==
  \A l \in Live :
    trap = "" /\ UnstackedTarget(St, l) =>
      /\ Ok(StackedTwice(St, l))
      /\ Kind(StackedTwice(St, l), StackingTarget(St, l)) = KindAfterTwice(St, StackingTarget(St, l))

C19_Witness ==
  /\ trap = ""
  /\ \E l \in Live :
       /\ UnstackedTarget(St, l)
       /\ ~FirstChildIsContainer(St, StackingTarget(St, l))
       /\ Kind(St, StackingTarget(St, l)) = "Horizontal"
       /\ Kind(StackedTwice(St, l), StackingTarget(St, l)) = "HorizontalStack"

C19_WitnessNested ==
  /\ trap = ""
  /\ \E l \in Live :
       /\ UnstackedTarget(St, l)
       /\ FirstChildIsContainer(St, StackingTarget(St, l))
       /\ Kind(StackedTwice(St, l), StackingTarget(St, l)) = "VerticalStack"

\* the range recorded for node n (get_range), <<>> when there is none
RangeOf(s, n) == IF HasRange(s, n) THEN <<RangeStart(s, n), RangeEnd(s, n)>> ELSE <<>>

SingleRange(s, n) == HasRange(s, n) /\ RangeStart(s, n) = RangeEnd(s, n)

IncreaseThenDecrease(s, l) == DecreaseSelectionRightOp(IncreaseSelectionRightOp(s, l), l)

\* t is the completed state after the pair and its range on n is the range s
\* recorded, or none when s recorded a single-node range
RangeRestored(s, t, n) ==
  /\ Ok(t)
  /\ \/ RangeOf(t, n) = RangeOf(s, n)
     \/ SingleRange(s, n) /\ RangeOf(t, n) = <<>>

\* C20 as stated: increase_selection_right then decrease_selection_right
\* restores the range recorded before the pair (none stays none, (a, b) stays
\* (a, b)), or clears it when it was a single node.
C20_PairRestoresRange ==
  \A l \in Live :
    trap = "" => RangeRestored(St, IncreaseThenDecrease(St, l), Selection(St, l))

\* the node increase_selection_right extends from: the recorded range end,
\* else the selection
ExtendFrom(s, n) == IF HasRange(s, n) THEN RangeEnd(s, n) ELSE n

\* increase_selection_right returns true
Extends(s, l) ==
  /\ Ok(IncreaseSelectionRightOp(s, l))
  /\ NextSibling(s, ExtendFrom(s, Selection(s, l))) # NoNode

\* increase_selection_right returns false
ExtendsNot(s, l) ==
  /\ Ok(IncreaseSelectionRightOp(s, l))
  /\ NextSibling(s, ExtendFrom(s, Selection(s, l))) = NoNode

RangeAfterExtending(s, n) == IF HasRange(s, n) THEN RangeOf(s, n) ELSE <<n, n>>

RangeAfterPair(s, t, l, n) ==
  /\ Extends(s, l) /\ NextSibling(s, ExtendFrom(s, n)) # RangeAfterExtending(s, n)[1] =>
       Ok(t) /\ RangeOf(t, n) = RangeAfterExtending(s, n)
  /\ ExtendsNot(s, l) /\ ~HasRange(s, n) => Ok(t) /\ RangeOf(t, n) = <<>>
  /\ ExtendsNot(s, l) /\ SingleRange(s, n) => Ok(t) /\ RangeOf(t, n) = <<>>

\* C20 amended: when increase_selection_right returns true, a following
\* decrease_selection_right restores a recorded range (a, b) (the node added
\* not being a itself), and with no range recorded leaves the single-node
\* range (S, S) on the selection S;
\* when it returns false, no range stays no range and a single-node range is
\* cleared.
C20_PairRestoresExtended ==
  \A l \in Live :
    trap = "" => RangeAfterPair(St, IncreaseThenDecrease(St, l), l, Selection(St, l))

C20_Witness ==
  /\ trap = ""
  /\ \E l \in Live :
       /\ Extends(St, l)
       /\ HasRange(St, Selection(St, l))
       /\ ~SingleRange(St, Selection(St, l))
       /\ RangeOf(IncreaseSelectionRightOp(St, l), Selection(St, l)) # RangeOf(St, Selection(St, l))
       /\ RangeOf(IncreaseThenDecrease(St, l), Selection(St, l)) = RangeOf(St, Selection(St, l))

C20_WitnessFresh ==
  /\ trap = ""
  /\ \E l \in Live :
       /\ Extends(St, l)
       /\ ~HasRange(St, Selection(St, l))
       /\ RangeOf(IncreaseThenDecrease(St, l), Selection(St, l)) = <<Selection(St, l), Selection(St, l)>>

\* t is a completed state with the tree of s: the same nodes, parents, child
\* orders, window bindings and roots
SameShape(s, t) ==
  /\ Ok(t)
  /\ t.alive = s.alive
  /\ t.par = s.par
  /\ t.kids = s.kids
  /\ t.win = s.win
  /\ t.roots = s.roots

Unmoved(s, t, l) == SameShape(s, t) /\ Selection(t, l) = Selection(s, l)

NoFocus == <<NoWin, {}>>

FocusAtBoundary(s, l, d) ==
  /\ TraverseInternal(s, Selection(s, l), d) = NoNode =>
       MoveFocusRet(s, l, d) = NoFocus /\ Unmoved(s, MoveFocusOp(s, l, d), l)
  /\ MoveOver(s, Selection(s, l), d) = NoNode =>
       /\ MoveFocusLevelRestrictedRet(s, l, d) = NoFocus
       /\ Unmoved(s, MoveFocusLevelRestrictedOp(s, l, d), l)

LevelAtBoundary(s, l) ==
  /\ s.par[Selection(s, l)] = NoNode =>
       ~AscendSelectionRet(s, l) /\ Unmoved(s, AscendSelectionOp(s, l), l)
  /\ s.kids[Selection(s, l)] = <<>> =>
       ~DescendSelectionRet(s, l) /\ Unmoved(s, DescendSelectionOp(s, l), l)

\* C21: navigation at the tree boundary is a no-op: with no node in the
\* requested direction move_focus and move_focus_level_restricted return
\* (None, empty), ascend_selection at the root and descend_selection at a
\* childless node return false, and tree shape and effective selection stay.
C21_BoundaryNavigationIsNoOp ==
  \A l \in Live :
    trap = "" => LevelAtBoundary(St, l) /\ \A d \in Directions : FocusAtBoundary(St, l, d)

C21_Witness ==
  /\ trap = ""
  /\ \E l \in Live : \E d \in Directions :
       /\ HasRange(St, Selection(St, l))
       /\ TraverseInternal(St, Selection(St, l), d) = NoNode
       /\ St.kids[Selection(St, l)] = <<>>
       /\ ~HasRange(MoveFocusOp(St, l, d), Selection(St, l))

\* t is the completed state in which node S of s has become the last child of
\* the container C, C keeping its parent and its earlier children, with no
\* window of layout l lost
MovedInto(s, t, l, S, C) ==
  /\ Ok(t)
  /\ C \in t.alive
  /\ t.kids[C] = Append(s.kids[C], S)
  /\ t.par[S] = C
  /\ t.par[C] = s.par[C]
  /\ BoundIn(t, l) = BoundIn(s, l)

MovedAndSelected(s, t, l, S, C) == MovedInto(s, t, l, S, C) /\ Selection(t, l) = S

RootLevelMove(s, l, C) ==
  /\ s.par[Selection(s, l)] = Root(s, l)
  /\ C # NoNode

\* C22: with the selection's parent the layout root and a sibling container
\* C, move_selection_to_sibling_next / _prev returns true, the selection
\* becomes the last child of C, C stays a child of the root with all its
\* earlier children, and no window is deleted.
C22_RootLevelSiblingMove ==
  \A l \in Live :
    trap = "" =>
      /\ RootLevelMove(St, l, SiblingNextTarget(St, l)) =>
           MovedAndSelected(St, MoveSelectionToSiblingNextOp(St, l), l,
                            Selection(St, l), SiblingNextTarget(St, l))
      /\ RootLevelMove(St, l, SiblingPrevTarget(St, l)) =>
           MovedAndSelected(St, MoveSelectionToSiblingPrevOp(St, l), l,
                            Selection(St, l), SiblingPrevTarget(St, l))

C22_Witness ==
  /\ trap = ""
  /\ \E l \in Live :
       /\ RootLevelMove(St, l, SiblingNextTarget(St, l))
       /\ Len(St.kids[Root(St, l)]) = 2
       /\ Len(MoveSelectionToSiblingNextOp(St, l).kids[Root(St, l)]) = 1

\* the selection and the container C are the only children of a parent that
\* has a parent of its own
NestedPairMove(s, l, C) ==
  /\ C # NoNode
  /\ s.par[Selection(s, l)] # NoNode
  /\ s.par[s.par[Selection(s, l)]] # NoNode
  /\ Len(s.kids[s.par[Selection(s, l)]]) = 2

\* t is the completed state in which the parent P of S is gone, C has taken
\* its place under G and S is a child of C
CollapsedInto(s, t, S, P, C) ==
  /\ Ok(t)
  /\ P \notin t.alive
  /\ C \in t.alive
  /\ t.par[C] = s.par[P]
  /\ t.par[S] = C

\* C23: when the selection's parent P has a parent G and the move into the
\* sibling container C leaves C as P's only child,
\* move_selection_to_sibling_next / _prev completes, P is removed, C becomes
\* a child of G and the moved node is a child of C.
C23_NestedSiblingMoveCollapses ==
  \A l \in Live :
    trap = "" =>
      /\ NestedPairMove(St, l, SiblingNextTarget(St, l)) =>
           CollapsedInto(St, MoveSelectionToSiblingNextOp(St, l), Selection(St, l),
                         St.par[Selection(St, l)], SiblingNextTarget(St, l))
      /\ NestedPairMove(St, l, SiblingPrevTarget(St, l)) =>
           CollapsedInto(St, MoveSelectionToSiblingPrevOp(St, l), Selection(St, l),
                         St.par[Selection(St, l)], SiblingPrevTarget(St, l))

\* every container stacked in s and still there in t is stacked in t
StacksKept(s, t) ==
  \A n \in s.alive \cap t.alive :
    s.win[n] = NoWin /\ IsStacked(Kind(s, n)) => IsStacked(Kind(t, n))

\* C24: join_selection_with_direction and its level-restricted form never
\* turn an existing stacked container into a non-stacked kind, whatever the
\* selection, target and direction.
C24_JoinKeepsStacks ==
  \A l \in Live : \A d \in Directions :
    trap = "" =>
      /\ StacksKept(St, JoinSelectionWithDirectionOp(St, l, d))
      /\ StacksKept(St, JoinSelectionWithDirectionLevelRestrictedOp(St, l, d))

\* the sibling next to n on the side direction d points to
DirectSibling(s, n, d) == IF Forward(d) THEN NextSibling(s, n) ELSE PrevSibling(s, n)

\* the selection is a window and its direct sibling in direction d is a
\* stacked container
NextToStack(s, l, d) ==
  /\ s.win[Selection(s, l)] # NoWin
  /\ s.par[Selection(s, l)] # NoNode
  /\ DirectSibling(s, Selection(s, l), d) # NoNode
  /\ s.win[DirectSibling(s, Selection(s, l), d)] = NoWin
  /\ IsStacked(Kind(s, DirectSibling(s, Selection(s, l), d)))

\* t is the completed state in which the stack J has grown by the node S
StackGrown(s, t, S, J) ==
  /\ Ok(t)
  /\ J \in t.alive
  /\ IsStacked(Kind(t, J))
  /\ Len(t.kids[J]) = Len(s.kids[J]) + 1
  /\ t.par[S] = J

\* C25: when the selection is a window whose direct sibling in the join
\* direction is a stacked container, join_selection_with_direction makes that
\* stack grow: it is still stacked and has one more child, the selected node.
C25_JoinGrowsStack ==
  \A l \in Live : \A d \in Directions :
    trap = "" /\ NextToStack(St, l, d) =>
      StackGrown(St, JoinSelectionWithDirectionOp(St, l, d),
                 Selection(St, l), DirectSibling(St, Selection(St, l), d))

\* every container of s is still there in t and has the kind it had
KindsKept(s, t) ==
  /\ Ok(t)
  /\ \A n \in s.alive : s.win[n] = NoWin => n \in t.alive /\ Kind(t, n) = Kind(s, n)

\* C26: add_window_after_selection never changes the LayoutKind of a
\* container that existed before the call; a stacked container stays stacked
\* whether the selection is inside the stack or outside it.
C26_AddWindowKeepsKinds ==
  \A l \in Live : \A w \in Windows :
    trap = "" /\ AddWindowAfterSelectionOp(St, l, w).trap # "oom" =>
      KindsKept(St, AddWindowAfterSelectionOp(St, l, w))

C26_Witness ==
  /\ trap = ""
  /\ \E l \in Live : \E w \in Windows :
       /\ St.par[Selection(St, l)] # NoNode
       /\ IsStacked(Kind(St, St.par[Selection(St, l)]))
       /\ \E n \in NodesOf(St, l) : St.win[n] = NoWin /\ ~IsStacked(Kind(St, n))
       /\ Ok(AddWindowAfterSelectionOp(St, l, w))
       /\ Len(AddWindowAfterSelectionOp(St, l, w).kids[St.par[Selection(St, l)]])
            = Len(St.kids[St.par[Selection(St, l)]]) + 1

\* the nodes below n, each before its children, the children last-to-first
RECURSIVE MirrorPreorder(_, _)
RECURSIVE MirrorPreorderSeq(_, _)
MirrorPreorder(s, n) == <<n>> \o MirrorPreorderSeq(s, Reverse(s.kids[n]))
MirrorPreorderSeq(s, seq) ==
  IF seq = <<>> THEN <<>>
  ELSE MirrorPreorder(s, Head(seq)) \o MirrorPreorderSeq(s, Tail(seq))

\* the window of the first bound node of a node sequence, NoWin if none
FirstWindow(s, nodes) ==
  IF SelectSeq(nodes, LAMBDA m : s.win[m] # NoWin) = <<>> THEN NoWin
  ELSE s.win[SelectSeq(nodes, LAMBDA m : s.win[m] # NoWin)[1]]

ProbesRight(s, l) ==
  /\ WindowInDirection(s, l, "Right") = FirstWindow(s, Preorder(s, Root(s, l)))
  /\ WindowInDirection(s, l, "Down") = FirstWindow(s, Preorder(s, Root(s, l)))
  /\ WindowInDirection(s, l, "Left") = FirstWindow(s, MirrorPreorder(s, Root(s, l)))
  /\ WindowInDirection(s, l, "Up") = FirstWindow(s, MirrorPreorder(s, Root(s, l)))

\* C27: window_in_direction(Right) and (Down) return the first window leaf in
\* preorder, (Left) and (Up) the first window leaf with the children visited
\* last-to-first, whatever the container kinds and the selection; on a layout
\* without a window the result is None.
C27_WindowInDirectionIsPreorder ==
  \A l \in Live :
    trap = "" =>
      /\ ProbesRight(St, l)
      /\ BoundIn(St, l) = {} => \A d \in Directions : WindowInDirection(St, l, d) = NoWin

C27_Witness ==
  /\ trap = ""
  /\ \E l \in Live :
       /\ WindowInDirection(St, l, "Left") # NoWin
       /\ WindowInDirection(St, l, "Left") # WindowInDirection(St, l, "Right")
       /\ \E n \in NodesOf(St, l) : IsStacked(Kind(St, n)) /\ St.kids[n] # <<>>
       /\ St.win[Selection(St, l)] = WindowInDirection(St, l, "Right")

\* every node of layout l below the root has size 1.0 and every container
\* has its number of children as total
Balanced(t, l) ==
  \A n \in NodesOf(t, l) :
    /\ t.par[n] # NoNode => t.info[n].size = One
    /\ t.kids[n] # <<>> => t.info[n].total = Len(t.kids[n]) * One

\* C28: after rebalance(L) every non-root node reachable from L's root has
\* size 1.0 and every container's total equals its number of children,
\* whatever the sizes were before.
C28_RebalanceResetsSizes ==
  \A l \in Live : trap = "" => Balanced(RebalanceOp(St, l), l)

\* C29: calculate_layout is side-effect-free: the size and total of every
\* node, and all other state, are the same after the call as before it.
C29_CalculateLayoutIsPure ==
  \A l \in Live : trap = "" => CalculateLayoutOp(St, l) = St

\* t is the completed state in which S is the effective selection of l and
\* l binds the window-ids it bound in s
MovedAndKept(s, t, l, S) ==
  /\ Ok(t)
  /\ Selection(t, l) = S
  /\ BoundIn(t, l) = BoundIn(s, l)

MoveOutcome(s, t, l, d) ==
  IF MoveSelectionRet(s, l, d) THEN MovedAndKept(s, t, l, Selection(s, l))
  ELSE Unmoved(s, t, l)

\* C30: after move_selection(L, d) returns true the moved node is still the
\* effective selection of L and L binds the same window-ids; when it returns
\* false the tree shape and the effective selection are unchanged.
C30_MoveKeepsSelection ==
  \A l \in Live : \A d \in Directions :
    trap = "" /\ MoveSelectionOp(St, l, d).trap # "oom" =>
      MoveOutcome(St, MoveSelectionOp(St, l, d), l, d)

C30_Witness ==
  /\ trap = ""
  /\ \E l \in Live : \E d \in Directions :
       /\ MoveSelectionRet(St, l, d)
       /\ St.par[Selection(St, l)] \notin MoveSelectionOp(St, l, d).alive
       /\ Selection(MoveSelectionOp(St, l, d), l) = Selection(St, l)
       /\ MoveSelectionOp(St, l, d).kids # St.kids

\* get_range finds no range in the entry of node p
NoRangeOn(t, p) == ~(t.sel[p].has /\ t.sel[p].rs # NoNode /\ t.sel[p].re # NoNode)

\* if the call completed in t, the parent of the node that was the effective
\* selection in s records no range, and neither does the parent of the
\* effective selection of t
RangeCleared(s, t, l) ==
  Ok(t) =>
    /\ s.par[Selection(s, l)] \in t.alive => NoRangeOn(t, s.par[Selection(s, l)])
    /\ ~HasRange(t, Selection(t, l))

DirectedNavigationClears(s, l, d) ==
  /\ RangeCleared(s, MoveFocusOp(s, l, d), l)
  /\ RangeCleared(s, MoveFocusLevelRestrictedOp(s, l, d), l)
  /\ RangeCleared(s, MoveSelectionOp(s, l, d), l)
  /\ RangeCleared(s, MoveSelectionLevelRestrictedOp(s, l, d), l)

LevelNavigationClears(s, l) ==
  /\ RangeCleared(s, NextSiblingWindowOp(s, l), l)
  /\ RangeCleared(s, PrevSiblingWindowOp(s, l), l)
  /\ RangeCleared(s, AscendSelectionOp(s, l), l)
  /\ RangeCleared(s, DescendSelectionOp(s, l), l)

\* C31: after move_focus, move_focus_level_restricted, next_sibling_window,
\* prev_sibling_window, ascend_selection, descend_selection, move_selection
\* or move_selection_level_restricted returns, no range is recorded on the
\* parent of the node that was the effective selection when the call began,
\* and the new effective selection has no range either.
C31_NavigationClearsRange ==
  \A l \in Live :
    trap = "" =>
      LevelNavigationClears(St, l) /\ \A d \in Directions : DirectedNavigationClears(St, l, d)


\* P has a parent and a single child in s: removed_child will hoist the child
OneChildLeft(s, P) ==
  /\ Ok(s)
  /\ P \in s.alive
  /\ s.par[P] # NoNode
  /\ Len(s.kids[P]) = 1

\* seq with every occurrence of a replaced by b
Replaced(seq, a, b) == [i \in 1..Len(seq) |-> IF seq[i] = a THEN b ELSE seq[i]]

\* t is the completed state in which C stands where P stood under G in s,
\* with P's size, P gone, G's total kept, and G's selected child C if it was P
CollapsedOnto(s, t, P, C, G) ==
  Ok(t) =>
    /\ P \notin t.alive
    /\ G \in t.alive
    /\ t.par[C] = G
    /\ t.kids[G] = Replaced(s.kids[G], P, C)
    /\ t.info[C].size = s.info[P].size
    /\ t.info[G].total = s.info[G].total
    /\ (s.sel[G].has /\ s.sel[G].child = P) => (t.sel[G].has /\ t.sel[G].child = C)

\* the rule applied to P in s, where a child of P has just been detached
Collapses(s, P) ==
  OneChildLeft(s, P) => CollapsedOnto(s, RemovedChild(s, P), P, s.kids[P][1], s.par[P])

\* the states in which node n has just left its parent: removed, or inserted
\* after a node outside its own subtree
DetachedStates(s, n) ==
  {DeleteRecursive(Detach(s, n), n)}
    \cup {InsertAfter(Detach(s, n), n, d) :
            d \in {x \in s.alive \ Subtree(s, n) : s.par[x] # NoNode}}

\* C32: when a child is detached from a non-root container P and exactly one
\* child C remains, C takes P's position among P's former siblings with P's
\* former size, P is removed, the grandparent's total is unchanged, and the
\* grandparent's selected child is C if it was P.
C32_AutoCollapse ==
  \A n \in Nodes :
    (trap = "" /\ n \in alive /\ par[n] # NoNode) =>
      \A s1 \in DetachedStates(St, n) : Collapses(s1, par[n])

\* the parent of P is a root or has a child besides P: the rule does not
\* apply to it in turn once P is gone
GrandparentStays(s, P) ==
  s.par[s.par[P]] = NoNode \/ Len(s.kids[s.par[P]]) > 1

\* C32 (amended): the same, for a grandparent that is a root or has another
\* child besides P.
C32_AutoCollapseUnderStayingGrandparent ==
  \A n \in Nodes :
    (trap = "" /\ n \in alive /\ par[n] # NoNode) =>
      \A s1 \in DetachedStates(St, n) :
        (OneChildLeft(s1, par[n]) /\ GrandparentStays(s1, par[n])) => Collapses(s1, par[n])

C32_Witness ==
  /\ trap = ""
  /\ \E n \in Nodes :
       /\ n \in alive
       /\ par[n] # NoNode
       /\ \E s1 \in DetachedStates(St, n) :
            /\ OneChildLeft(s1, par[n])
            /\ Len(s1.kids[s1.par[par[n]]]) > 1
            /\ s1.sel[s1.par[par[n]]].has
            /\ s1.sel[s1.par[par[n]]].child = par[n]
            /\ s1.info[par[n]].size # One
            /\ Ok(RemovedChild(s1, par[n]))
            /\ RemovedChild(s1, par[n]).info[s1.kids[par[n]][1]].size = s1.info[par[n]].size

\* n is a stacked container of layout l whose children are all window leaves,
\* one of them the effective selection
StackOfLeavesWithSelection(s, l, n) ==
  /\ n \in NodesOf(s, l)
  /\ IsStacked(Kind(s, n))
  /\ \A i \in 1..Len(s.kids[n]) : s.win[s.kids[n][i]] # NoWin
  /\ s.par[Selection(s, l)] = n

\* the child of the stack n that apply_with_gaps gives the focused frame
EnlargedChild(s, n) == s.kids[n][FocusedIdx(s, s.kids[n])]

MidFrame == [x |-> 320, y |-> 220, w |-> 560, h |-> 360]

WidthMoves == {0, 300}

HeightMoves == {0, 200}

\* MidFrame with its left, right, upper and lower edge moved outwards
Grown(dl, dr, du, dd) ==
  [x |-> MidFrame.x - dl, y |-> MidFrame.y - du,
   w |-> MidFrame.w + dl + dr, h |-> MidFrame.h + du + dd]

\* the edges moved are both edges of one axis, or three or more
Rejected(dl, dr, du, dd) ==
  \/ dl # 0 /\ dr # 0
  \/ du # 0 /\ dd # 0

\* resize_internal for each edge moved, left, right, up, down
EdgesApplied(s, n, dl, dr, du, dd) ==
  LET s1 == IF dl # 0 THEN ResizeInternal(s, n, <<dl, Screen.w>>, "Left") ELSE s
      s2 == IF dr # 0 THEN ResizeInternal(s1, n, <<dr, Screen.w>>, "Right") ELSE s1
      s3 == IF du # 0 THEN ResizeInternal(s2, n, <<du, Screen.h>>, "Up") ELSE s2
  IN IF dd # 0 THEN ResizeInternal(s3, n, <<dd, Screen.h>>, "Down") ELSE s3

\* t is what on_window_resized leaves of s for window w of layout l
ResizeOutcome(s, t, l, w, dl, dr, du, dd) ==
  Ok(t) =>
    IF Rejected(dl, dr, du, dd) THEN t.info = s.info
    ELSE t = EdgesApplied(s, NodeFor(s, l, w), dl, dr, du, dd)

\* C34: a frame change with non-zero deltas on both edges of one axis or on
\* three or more edges is rejected and no node's size or total changes; a
\* change on one edge, or on two edges of different axes, is applied.
C34_CollinearOrTripleResizeRejected ==
  \A l \in Live : \A w \in Windows :
    (trap = "" /\ NodeFor(St, l, w) # NoNode) =>
      \A dl \in WidthMoves, dr \in WidthMoves, du \in HeightMoves, dd \in HeightMoves :
        ResizeOutcome(St, OnWindowResizedOp(St, l, w, MidFrame, Grown(dl, dr, du, dd), Screen),
                      l, w, dl, dr, du, dd)

\* what on_window_resized leaves of the sizes of layout l's window w
Resized(l, w, dl, dr, du, dd) ==
  OnWindowResizedOp(St, l, w, MidFrame, Grown(dl, dr, du, dd), Screen).info

\* a window with an edge on each axis that can be resized: the frame change on
\* both edges is applied, the one that also moves the opposite edge is not
C34_Witness ==
  /\ trap = ""
  /\ \E l \in Live : \E w \in Windows :
       /\ NodeFor(St, l, w) # NoNode
       /\ \E dl \in WidthMoves, dr \in WidthMoves, du \in HeightMoves, dd \in HeightMoves :
            /\ (dl = 0) # (dr = 0)
            /\ (du = 0) # (dd = 0)
            /\ Resized(l, w, dl, dr, 0, 0) # info
            /\ Resized(l, w, 0, 0, du, dd) # info
            /\ Resized(l, w, dl, dr, du, dd)
                 \notin {info, Resized(l, w, dl, dr, 0, 0), Resized(l, w, 0, 0, du, dd)}
            /\ Ok(OnWindowResizedOp(St, l, w, MidFrame, Grown(300, 300, du, dd), Screen))
            /\ Resized(l, w, 300, 300, du, dd) = info

\* t is the completed state in which the container created out of s is
\* stacked, by the kind k its parent had and the orientation o, and every
\* container of s that is left has the kind it had
OnlyNewContainerStacked(s, t, k, o) ==
  (Ok(t) /\ Cardinality(t.alive \ s.alive) = 1) =>
    /\ Kind(t, NewContainer(s, t)) = StackKindFor(k, o)
    /\ IsStacked(Kind(t, NewContainer(s, t)))
    /\ \A n \in s.alive \cap t.alive : s.win[n] = NoWin => Kind(t, n) = Kind(s, n)

\* C35: group_selection with auto_stack = true converts the newly created
\* container to a stacked kind chosen from the parent's kind and the given
\* orientation, and changes the kind of no other container in the layout.
C35_AutoStackStacksNewContainer ==
  \A l \in Live : \A o \in StackOrients :
    (trap = "" /\ GroupCreates(St, l)) =>
      OnlyNewContainerStacked(St, GroupSelectionOp(St, l, TRUE, o),
                              Kind(St, St.par[GroupedNodes(St, l)[1]]), o)

\* seq with the elements a and b in each other's places
Exchanged(seq, a, b) ==
  [i \in 1..Len(seq) |-> IF seq[i] = a THEN b ELSE IF seq[i] = b THEN a ELSE seq[i]]

\* t is the completed state in which node S of s has changed places with its
\* sibling N under the parent they had
PlacesExchanged(s, t, S, N) ==
  /\ t.par[S] = s.par[S]
  /\ t.kids[s.par[S]] = Exchanged(s.kids[s.par[S]], S, N)

\* move_selection_level_restricted returns true
MoveSelectionLevelRestrictedRet(s, l, d) == MoveOver(s, Selection(s, l), d) # NoNode

SwappedAndSelected(s, t, l, d) ==
  Ok(t) =>
    /\ PlacesExchanged(s, t, Selection(s, l), MoveOver(s, Selection(s, l), d))
    /\ Selection(t, l) = Selection(s, l)

\* C36: after move_selection_level_restricted(L, d) returns true, the moved
\* node is still a child of the same parent, has exchanged places with its
\* neighbouring sibling in direction d, and is still the effective selection.
C36_LevelRestrictedMoveSwaps ==
  \A l \in Live : \A d \in Directions :
    (trap = "" /\ MoveSelectionLevelRestrictedRet(St, l, d)) =>
      SwappedAndSelected(St, MoveSelectionLevelRestrictedOp(St, l, d), l, d)

\* t is the completed state in which the node of s that move_focus reported
\* the window of is the effective selection of layout l
FocusSelected(s, t, l, d) ==
  Ok(t) =>
    /\ Selection(t, l) = MoveFocusTarget(ClearRange(s, Selection(s, l)), l, d)
    /\ SelectedWindow(t, l) = MoveFocusRet(s, l, d)[1]

\* C37: whenever move_focus(L, d) returns (Some(w), _), the effective selection
\* of L immediately afterwards is the node bound to w, for every selection
\* state including containers pinned by ascend_selection.
C37_MoveFocusSelectsReturnedWindow ==
  \A l \in Live : \A d \in Directions :
    (trap = "" /\ MoveFocusRet(St, l, d)[1] # NoWin) =>
      FocusSelected(St, MoveFocusOp(St, l, d), l, d)

\* n is a node of layout l's tree and the window bound at n is w
BoundAt(s, l, w, n) == n \in NodesOf(s, l) /\ WindowAt(s, n) = w

\* C38: after any sequence of public operations the two binding tables agree:
\* node_for(L, w) is n if and only if n is a node of L's tree bound to w, and
\* contains_window(L, w) is true exactly when w is bound inside L's tree.
C38_BindingTablesAgree ==
  trap = "" =>
    \A l \in Layouts : \A w \in Windows :
      /\ \A n \in Nodes : (NodeFor(St, l, w) = n) <=> BoundAt(St, l, w, n)
      /\ ContainsWindow(St, l, w) <=> w \in BoundIn(St, l)

\* the structural operations that are to keep the windows of layout l
StructuralResults(s, l) ==
  {SplitSelectionOp(s, l, k) : k \in Kinds}
  \cup {GroupSelectionOp(s, l, c[1], c[2]) : c \in GroupCases}
  \cup {UngroupSelectionOp(s, l), UngroupSiblingsOp(s, l), UnjoinSelectionOp(s, l)}
  \cup {JoinSelectionWithDirectionOp(s, l, d) : d \in Directions}
  \cup {JoinSelectionWithDirectionLevelRestrictedOp(s, l, d) : d \in Directions}
  \cup {MoveSelectionOp(s, l, d) : d \in Directions}
  \cup {MoveSelectionLevelRestrictedOp(s, l, d) : d \in Directions}
  \cup {MoveSelectionToSiblingNextOp(s, l), MoveSelectionToSiblingPrevOp(s, l)}
  \cup {ApplyStackingToParentOfSelectionOp(s, l, o) : o \in StackOrients}
  \cup {UnstackParentOfSelectionOp(s, l, o) : o \in StackOrients}
  \cup {ToggleTileOrientationOp(s, l), RebalanceOp(s, l)}
  \cup {SwapWindowsOp(s, l, a, b) : a \in Windows, b \in Windows}

\* the navigation and selection operations
NavigationResults(s, l) ==
  {SelectWindowOp(s, l, w) : w \in Windows}
  \cup {AscendSelectionOp(s, l), DescendSelectionOp(s, l)}
  \cup {MoveFocusOp(s, l, d) : d \in Directions}
  \cup {MoveFocusLevelRestrictedOp(s, l, d) : d \in Directions}
  \cup {NextSiblingWindowOp(s, l), PrevSiblingWindowOp(s, l)}
  \cup {IncreaseSelectionLeftOp(s, l), IncreaseSelectionRightOp(s, l)}
  \cup {DecreaseSelectionLeftOp(s, l), DecreaseSelectionRightOp(s, l)}

\* C39: window conservation: no structural operation other than the adding,
\* removing and cross-layout ones, and no navigation operation, changes the
\* set of window-ids bound in the layout it is addressed to.
C39_WindowsConserved ==
  \A l \in Live :
    trap = "" =>
      \A t \in StructuralResults(St, l) \cup NavigationResults(St, l) :
        Ok(t) => BoundIn(t, l) = BoundIn(St, l)

\* a is what ascend_selection made of s: descend_selection on it returns true
\* and leads back to the node selected in s
DescendsBack(s, a, l) ==
  Ok(a) =>
    /\ DescendSelectionRet(a, l)
    /\ Ok(DescendSelectionOp(a, l)) => Selection(DescendSelectionOp(a, l), l) = Selection(s, l)

\* C40: if ascend_selection(L) returns true, an immediately following
\* descend_selection(L) returns true and the effective selection is again the
\* node that was selected before the ascend.
C40_DescendUndoesAscend ==
  \A l \in Live :
    (trap = "" /\ AscendSelectionRet(St, l)) => DescendsBack(St, AscendSelectionOp(St, l), l)

\* the selection is not its parent's first child; the ascend selects the
\* parent and the descend comes back to it
C40_Witness ==
  /\ trap = ""
  /\ \E l \in Live :
       /\ AscendSelectionRet(St, l)
       /\ FirstChild(St, St.par[Selection(St, l)]) # Selection(St, l)
       /\ Selection(AscendSelectionOp(St, l), l) = St.par[Selection(St, l)]
       /\ Selection(DescendSelectionOp(AscendSelectionOp(St, l), l), l) = Selection(St, l)

====
